---- MODULE Spec2Model ----
(***************************************************************************)
(* A model of the SOP question-answering pipeline: the character chunker,  *)
(* the ingestion run, the index lifecycle (build / load / force rebuild),  *)
(* a rebuild racing with a query's load, and answer_query.                 *)
(*                                                                         *)
(* The repository holds two generations of the pipeline.  The model calls  *)
(* them "sop" (scripts/, src/*.py, app/streamlit_app.py) and "jls"         *)
(* (src/jls_chatbot/).  Each part of the system has its own specification  *)
(* over its own group of variables; the variables of the other parts stay  *)
(* at their idle values.                                                   *)
(***************************************************************************)
EXTENDS Integers, Sequences, FiniteSets, TLC

Min(a, b) == IF a < b THEN a ELSE b
Max(a, b) == IF a > b THEN a ELSE b

(***************************************************************************)
(* Bounds of the model.                                                    *)
(***************************************************************************)
MaxLen == 5
MaxSize == 3
Chars == {"a", "b"}

\* ---- chunk_text (scripts/ingest.py) ----
VARIABLES
  text,        \* the input string, a sequence of characters
  chunk_size,  \* parameter chunk_size
  overlap,     \* parameter overlap
  start,       \* local start
  chunks,      \* local chunks: sequence of <<start, end, chunk>>
  cpc          \* position: "loop" inside the while, "done" after return

\* ---- the deployment and the files of CHUNKS_DIR ----
VARIABLES
  variant,     \* "sop" (scripts/, src/*.py) or "jls" (src/jls_chatbot/)
  chunksFile,  \* chunks.jsonl: whether it exists, and its lines
  embFile,     \* embeddings.npy: whether it exists, its rows and its columns
  prefDim      \* output dimension of the embedding model EMBEDDING_MODEL names

\* ---- ingest_all ----
VARIABLES
  docs,             \* the corpus in processing order: one descriptor a document
  manifest,         \* jls: .metadata.json exists
  di,               \* position of the for loop over the documents (1-based)
  next_id,
  metadata,
  all_texts,
  bi,               \* i of the embedding loop (0-based start of the batch)
  embeddings_list,
  ipc,              \* position of the run
  rerun,            \* a second run has been started
  chunksBefore,     \* chunks.jsonl as the current run found it
  embBefore,        \* embeddings.npy as the current run found it
  sent              \* the batches given to provider.embed_texts, in order

\* ---- the index directory and the calls that build or load it ----
VARIABLES
  indexDir,        \* INDEX_DIR/faiss_index: its two files index.faiss, index.pkl
  faissIndexFile,  \* INDEX_DIR/faiss.index (src/vectorstore.py)
  metadataFile,    \* INDEX_DIR/metadata.jsonl (src/vectorstore.py)
  op,              \* the last call: its name, its force flag, indexDir before it
  ret              \* what the last call returned or raised

\* ---- a force rebuild racing with the loads of queries ----
VARIABLES
  wpc,     \* position of the session that pressed "Rebuild index (force)"
  wvs,     \* its local vs, the vectorstore it built
  rpc,     \* position of each querying session
  rfaiss,  \* what a querying session read from index.faiss
  loaded   \* the vectorstore FAISS.load_local gave a querying session

\* ---- answer_query ----
VARIABLES
  vectorstore,      \* the vectorstore answer_query holds in memory
  top_k,            \* k of the retriever
  search_type,      \* "similarity" or "similarity_score_threshold"
  score_threshold,  \* the largest distance the threshold search lets through
  apc,              \* position inside answer_query
  context_docs,     \* the documents format_docs put into the prompt
  answer_text,      \* what the LLM returned
  sources           \* the sources list of the result

\* ---- GeminiEmbedder ----
VARIABLES
  ecall,          \* the last call of an embedder method: its name and argument
  eresp,          \* what the backend answered during that call
  backend_calls,  \* how many times that call invoked the backend
  eret            \* what that call returned or raised

\* ---- retrieve (src/qa_chain.py) ----
VARIABLES
  rcall,  \* the last retrieve call: the query vector, its dimension, top_k
  rret    \* what it returned or raised

\* ---- format_docs, build_context ----
VARIABLES
  fcall,    \* the last formatting call: which function, and its documents
  fcontext  \* the context string it returned, as a sequence of pieces

\* ---- clean_text, _normalize_whitespace ----
VARIABLES
  ccall,  \* the last cleaning call: which function, and its argument
  cret    \* the string it returned

\* ---- _embed_and_normalize, the arithmetic ----
VARIABLES
  ncall,  \* the vectors the backend gave for the texts of the last call
  nret    \* the array _embed_and_normalize returned for them

\* ---- _extract_vectors_from_response ----
VARIABLES
  xresp,  \* the response object of the last call
  xret    \* what the call returned or raised

\* ---- the two Streamlit apps: one session ----
VARIABLES
  secret,            \* st.secrets.get("PASSWORD")
  password_correct,  \* st.session_state["password_correct"]
  page,              \* st.session_state.page
  history,           \* st.session_state.history
  rendered,          \* what the last run of the script showed
  called,            \* whether the last run called answer_query
  event              \* the widget event the last run was started by

\* ---- pipeline/download.py: main ----
VARIABLES
  sheet,         \* the rows of the spreadsheet: hyperlink and section cell
  unique_docs,   \* the dict of url to section, in insertion order
  ui,            \* the position of the loop in unique_docs
  all_metadata,  \* the entries of .metadata.json
  dpc            \* where main is

\* ---- scripts/ingest.py: the heading of a page ----
VARIABLES
  hpage,  \* p["text"] of the page the loop is at
  hret    \* page_text, first_lines and heading after the body of the loop

chunkVars == <<text, chunk_size, overlap, start, chunks, cpc>>
headingVars == <<hpage, hret>>
downloadVars == <<sheet, unique_docs, ui, all_metadata, dpc>>
appVars == <<secret, password_correct, page, history, rendered, called, event>>
extractVars == <<xresp, xret>>
normVars == <<ncall, nret>>
cleanVars == <<ccall, cret>>
formatVars == <<fcall, fcontext>>
retrieveVars == <<rcall, rret>>
embedderVars == <<ecall, eresp, backend_calls, eret>>
answerVars == <<vectorstore, top_k, search_type, score_threshold, apc,
                context_docs, answer_text, sources>>
rebuildVars == <<wpc, wvs, rpc, rfaiss, loaded>>
indexVars == <<indexDir, faissIndexFile, metadataFile, op, ret>>
diskVars == <<variant, chunksFile, embFile, prefDim>>
ingestVars == <<docs, manifest, di, next_id, metadata, all_texts, bi,
                embeddings_list, ipc, rerun, chunksBefore, embBefore,
                sent>>
vars == <<chunkVars, diskVars, ingestVars, indexVars, rebuildVars,
          answerVars, embedderVars, retrieveVars, formatVars, cleanVars,
          normVars, extractVars, appVars, downloadVars, headingVars>>

\* what the actions of one part leave alone
ChunkOthers == <<diskVars, ingestVars, indexVars, rebuildVars, answerVars,
                 embedderVars, retrieveVars, formatVars, cleanVars, normVars,
                 extractVars, appVars, downloadVars, headingVars>>
IngestOthers == <<chunkVars, indexVars, rebuildVars, answerVars,
                  embedderVars, retrieveVars, formatVars, cleanVars,
                  normVars, extractVars, appVars, downloadVars, headingVars>>
IndexOthers == <<chunkVars, ingestVars, rebuildVars, answerVars,
                 embedderVars, retrieveVars, formatVars, cleanVars, normVars,
                 extractVars, appVars, downloadVars, headingVars>>
RebuildOthers == <<chunkVars, diskVars, ingestVars, faissIndexFile,
                   metadataFile, answerVars, embedderVars, retrieveVars,
                   formatVars, cleanVars, normVars, extractVars, appVars,
                   downloadVars, headingVars>>
AnswerOthers == <<chunkVars, chunksFile, embFile, prefDim, ingestVars,
                  indexVars, rebuildVars, embedderVars, retrieveVars,
                  formatVars, cleanVars, normVars, extractVars, appVars,
                  downloadVars, headingVars>>
EmbedderOthers == <<chunkVars, diskVars, ingestVars, indexVars, rebuildVars,
                    answerVars, retrieveVars, formatVars, cleanVars,
                    normVars, extractVars, appVars, downloadVars,
                    headingVars>>
RetrieveOthers == <<chunkVars, diskVars, ingestVars, indexVars, rebuildVars,
                    answerVars, embedderVars, formatVars, cleanVars,
                    normVars, extractVars, appVars, downloadVars,
                    headingVars>>
FormatOthers == <<chunkVars, diskVars, ingestVars, indexVars, rebuildVars,
                  answerVars, embedderVars, retrieveVars, cleanVars,
                  normVars, extractVars, appVars, downloadVars, headingVars>>
CleanOthers == <<chunkVars, diskVars, ingestVars, indexVars, rebuildVars,
                 answerVars, embedderVars, retrieveVars, formatVars,
                 normVars, extractVars, appVars, downloadVars, headingVars>>
NormOthers == <<chunkVars, diskVars, ingestVars, indexVars, rebuildVars,
                answerVars, embedderVars, retrieveVars, formatVars,
                cleanVars, extractVars, appVars, downloadVars, headingVars>>
ExtractOthers == <<chunkVars, diskVars, ingestVars, indexVars, rebuildVars,
                   answerVars, embedderVars, retrieveVars, formatVars,
                   cleanVars, normVars, appVars, downloadVars, headingVars>>
AppOthers == <<chunkVars, diskVars, ingestVars, indexVars, rebuildVars,
               answerVars, embedderVars, retrieveVars, formatVars, cleanVars,
               normVars, extractVars, downloadVars, headingVars>>
DownloadOthers == <<chunkVars, diskVars, ingestVars, indexVars, rebuildVars,
                    answerVars, embedderVars, retrieveVars, formatVars,
                    cleanVars, normVars, extractVars, appVars, headingVars>>
HeadingOthers == <<chunkVars, diskVars, ingestVars, indexVars, rebuildVars,
                   answerVars, embedderVars, retrieveVars, formatVars,
                   cleanVars, normVars, extractVars, appVars, downloadVars>>

(***************************************************************************)
(* chunk_text                                                              *)
(***************************************************************************)
\* Python's text[a:b] for 0 <= a: clipped to the length of the text.
SliceShort(s, a, b) == SubSeq(s, a + 1, Min(b, Len(s)) - 1)
Slice(s, a, b) == SubSeq(s, a + 1, Min(b, Len(s)))

Texts == UNION {[1..n -> Chars] : n \in 0..MaxLen}

\* start = max(end - overlap, end); if start == end: start += chunk_size
NextStartStuck(end, size, ov) == end - size
NextStart(end, size, ov) ==
  LET s == Max(end - ov, end)
  IN  IF s = end THEN s + size ELSE s

ChunkInit ==
  /\ text \in Texts
  /\ chunk_size \in 1..MaxSize
  /\ overlap \in 0..chunk_size
  /\ start = 0
  /\ chunks = <<>>
  /\ cpc = "loop"

ChunkIdle ==
  /\ text = <<>>
  /\ chunk_size = 1
  /\ overlap = 0
  /\ start = 0
  /\ chunks = <<>>
  /\ cpc = "idle"

\* one iteration of the while loop
ChunkLoop ==
  /\ cpc = "loop"
  /\ start < Len(text)
  /\ LET end == start + chunk_size
         chunk == Slice(text, start, end)
     IN  /\ chunks' = Append(chunks, <<start, Min(end, Len(text)), chunk>>)
         /\ start' = NextStart(end, chunk_size, overlap)
  /\ UNCHANGED <<text, chunk_size, overlap, cpc>>
  /\ UNCHANGED ChunkOthers

\* the loop condition fails: return chunks
ChunkReturn ==
  /\ cpc = "loop"
  /\ ~(start < Len(text))
  /\ cpc' = "done"
  /\ UNCHANGED <<text, chunk_size, overlap, start, chunks>>
  /\ UNCHANGED ChunkOthers

(***************************************************************************)
(* The deployment and the files of CHUNKS_DIR, shared by ingestion and by  *)
(* the index builds.                                                       *)
(***************************************************************************)
Variants == {"sop", "jls"}
NoChunksFile == [exists |-> FALSE, lines |-> <<>>]
NoEmbFile == [exists |-> FALSE, rows |-> <<>>, dim |-> 0]
Dims == {2, 3}

\* A vector is named by the text it embeds; Stray is a vector of no text.
Vec(t) == t
Stray == <<0, 0, 0>>

RECURSIVE Flatten(_)
Flatten(ss) == IF ss = <<>> THEN <<>> ELSE Head(ss) \o Flatten(Tail(ss))

(***************************************************************************)
(* ingest_all                                                              *)
(***************************************************************************)
MaxDocs == 2
BatchSize == 2

\* A document: whether its file can be read, and for each page the number of
\* chunks its cleaned text splits into (0: the text is empty).
DocKinds ==
  { [file |-> "missing",    pages |-> <<>>],
    [file |-> "unreadable", pages |-> <<>>],
    [file |-> "ok",         pages |-> <<0>>],
    [file |-> "ok",         pages |-> <<1>>],
    [file |-> "ok",         pages |-> <<0, 2>>] }

Corpora == UNION {[1..n -> DocKinds] : n \in 0..MaxDocs}

\* The chunks of document d in order, each with its page and its text.
ChunksOfPage(d, p, c) == [k \in 1..c |-> [page |-> p, text |-> <<d, p, k>>]]
DocChunks(d, doc) ==
  Flatten([p \in 1..Len(doc.pages) |-> ChunksOfPage(d, p, doc.pages[p])])

\* next_id += 1, once for each of the n chunks appended
AdvanceIdSkipped(next, n) == next + n + (IF n = 0 THEN 1 ELSE 0)
AdvanceId(next, n) == next + n

\* chunk_meta of the j-th chunk appended for document d
ChunkMeta(next, j, d, c) ==
  [id |-> next + (j - 1), source |-> d,
   page |-> IF variant = "sop" THEN c.page ELSE 0]

IngestLocalsInit ==
  /\ di = 1
  /\ next_id = 0
  /\ metadata = <<>>
  /\ all_texts = <<>>
  /\ bi = 0
  /\ embeddings_list = <<>>
  /\ sent = <<>>
  /\ ipc = "start"

DiskIdle ==
  /\ variant = "sop"
  /\ chunksFile = NoChunksFile
  /\ embFile = NoEmbFile
  /\ prefDim = 2

IngestInit ==
  /\ variant \in Variants
  /\ docs \in Corpora
  \* sop lists the files that exist (glob): none of them is missing
  /\ variant = "sop" => \A d \in 1..Len(docs) : docs[d].file # "missing"
  /\ manifest \in BOOLEAN
  /\ variant = "sop" => manifest
  /\ chunksFile = NoChunksFile
  /\ embFile = NoEmbFile
  /\ prefDim = 2
  /\ rerun = FALSE
  /\ chunksBefore = NoChunksFile
  /\ embBefore = NoEmbFile
  /\ IngestLocalsInit

IngestIdle ==
  /\ docs = <<>>
  /\ manifest = TRUE
  /\ rerun = FALSE
  /\ chunksBefore = NoChunksFile
  /\ embBefore = NoEmbFile
  /\ IngestLocalsInit

IngestFrame ==
  /\ UNCHANGED <<variant, prefDim, docs, manifest, rerun, chunksBefore,
                 embBefore>>
  /\ UNCHANGED IngestOthers

\* GeminiEmbedder() raises: the run raises
IngestProviderFails ==
  /\ ipc = "start"
  /\ ipc' = "raised"
  /\ IngestFrame
  /\ UNCHANGED <<di, next_id, metadata, all_texts, bi, embeddings_list, sent,
                 chunksFile, embFile>>

\* the provider is there; no manifest (jls) or no pdf file (sop): return
IngestNothingToRead ==
  /\ ipc = "start"
  /\ IF variant = "jls" THEN ~manifest ELSE docs = <<>>
  /\ ipc' = "returned"
  /\ IngestFrame
  /\ UNCHANGED <<di, next_id, metadata, all_texts, bi, embeddings_list, sent,
                 chunksFile, embFile>>

IngestBegin ==
  /\ ipc = "start"
  /\ IF variant = "jls" THEN manifest ELSE docs # <<>>
  /\ ipc' = "docs"
  /\ IngestFrame
  /\ UNCHANGED <<di, next_id, metadata, all_texts, bi, embeddings_list, sent,
                 chunksFile, embFile>>

\* one iteration of the loop over the documents
IngestDoc ==
  /\ ipc = "docs"
  /\ di <= Len(docs)
  /\ LET doc == docs[di]
         cs  == DocChunks(di, doc)
     IN  IF doc.file = "ok"
         THEN /\ metadata' = metadata \o
                   [j \in 1..Len(cs) |-> ChunkMeta(next_id, j, di, cs[j])]
              /\ all_texts' = all_texts \o [j \in 1..Len(cs) |-> cs[j].text]
              /\ next_id' = AdvanceId(next_id, Len(cs))
              /\ di' = di + 1
              /\ ipc' = ipc
         ELSE IF variant = "jls"
         \* jls: a missing or unreadable file is skipped with a warning
         THEN /\ di' = di + 1
              /\ UNCHANGED <<metadata, all_texts, next_id, ipc>>
         \* sop: fitz.open raises out of ingest_all
         ELSE /\ ipc' = "raised"
              /\ UNCHANGED <<metadata, all_texts, next_id, di>>
  /\ IngestFrame
  /\ UNCHANGED <<bi, embeddings_list, sent, chunksFile, embFile>>

\* after the loop: "No text chunks produced" returns, else embed
IngestDocsDone ==
  /\ ipc = "docs"
  /\ di > Len(docs)
  /\ ipc' = IF all_texts = <<>> THEN "returned" ELSE "embed"
  /\ IngestFrame
  /\ UNCHANGED <<di, next_id, metadata, all_texts, bi, embeddings_list, sent,
                 chunksFile, embFile>>

\* What provider.embed_texts(batch) may give back: a vector for each text, one
\* vector too few, one too many; or it raises.
Responses(batch) ==
  LET ok == [j \in 1..Len(batch) |-> Vec(batch[j])]
  IN  {ok, Append(ok, Stray)} \cup
      (IF Len(batch) >= 2 THEN {SubSeq(ok, 1, Len(ok) - 1)} ELSE {})

\* one iteration of the embedding loop, the call returning emb_batch
EmbedBatchSkipsAhead ==
  /\ ipc = "embed"
  /\ bi < Len(all_texts)
  /\ LET batch == Slice(all_texts, bi + 1, bi + 1 + BatchSize)
     IN  /\ sent' = Append(sent, batch)
         /\ \E emb_batch \in Responses(batch) :
               embeddings_list' = Append(embeddings_list, emb_batch)
  /\ bi' = bi + 1 + BatchSize
  /\ IngestFrame
  /\ UNCHANGED <<di, next_id, metadata, all_texts, ipc, chunksFile, embFile>>
EmbedBatch ==
  /\ ipc = "embed"
  /\ bi < Len(all_texts)
  /\ LET batch == Slice(all_texts, bi, bi + BatchSize)
     IN  /\ sent' = Append(sent, batch)
         /\ \E emb_batch \in Responses(batch) :
               embeddings_list' = Append(embeddings_list, emb_batch)
  /\ bi' = bi + BatchSize
  /\ IngestFrame
  /\ UNCHANGED <<di, next_id, metadata, all_texts, ipc, chunksFile, embFile>>

\* one iteration of the embedding loop, the call raising: print and re-raise
EmbedBatchRaisesAfterSave ==
  /\ ipc = "embed"
  /\ bi < Len(all_texts)
  /\ sent' = Append(sent, Slice(all_texts, bi, bi + BatchSize))
  /\ ipc' = "raised"
  /\ chunksFile' = [exists |-> TRUE, lines |-> <<>>]
  /\ IngestFrame
  /\ UNCHANGED <<di, next_id, metadata, all_texts, bi, embeddings_list, embFile>>
EmbedBatchRaises ==
  /\ ipc = "embed"
  /\ bi < Len(all_texts)
  /\ sent' = Append(sent, Slice(all_texts, bi, bi + BatchSize))
  /\ ipc' = "raised"
  /\ IngestFrame
  /\ UNCHANGED <<di, next_id, metadata, all_texts, bi, embeddings_list,
                 chunksFile, embFile>>

EmbedDone ==
  /\ ipc = "embed"
  /\ ~(bi < Len(all_texts))
  /\ ipc' = "save1"
  /\ IngestFrame
  /\ UNCHANGED <<di, next_id, metadata, all_texts, bi, embeddings_list, sent,
                 chunksFile, embFile>>

\* the lines written to chunks.jsonl: zip(metadata, all_texts)
ChunkLines ==
  [exists |-> TRUE, lines |->
  [j \in 1..Min(Len(metadata), Len(all_texts)) |->
     [id |-> metadata[j].id, source |-> metadata[j].source,
      page |-> metadata[j].page, text |-> all_texts[j]]]]

\* np.vstack(embeddings_list)
EmbeddingsArr == [exists |-> TRUE, rows |-> Flatten(embeddings_list), dim |-> prefDim]

\* sop writes chunks.jsonl first, jls embeddings.npy first
IngestSaveFirst ==
  /\ ipc = "save1"
  /\ IF variant = "sop"
     THEN chunksFile' = ChunkLines /\ UNCHANGED embFile
     ELSE embFile' = EmbeddingsArr /\ UNCHANGED chunksFile
  /\ ipc' = "save2"
  /\ IngestFrame
  /\ UNCHANGED <<di, next_id, metadata, all_texts, bi, embeddings_list, sent>>

IngestSaveSecond ==
  /\ ipc = "save2"
  /\ IF variant = "sop"
     THEN embFile' = EmbeddingsArr /\ UNCHANGED chunksFile
     ELSE chunksFile' = ChunkLines /\ UNCHANGED embFile
  /\ ipc' = "done"
  /\ IngestFrame
  /\ UNCHANGED <<di, next_id, metadata, all_texts, bi, embeddings_list, sent>>

\* the operator runs the script once more on the same corpus
IngestAgainKeepsNextId ==
  /\ ipc \in {"done", "returned", "raised"}
  /\ ~rerun
  /\ rerun' = TRUE
  /\ chunksBefore' = chunksFile /\ embBefore' = embFile
  /\ di' = 1 /\ next_id' = next_id /\ metadata' = <<>> /\ all_texts' = <<>>
  /\ bi' = 0 /\ embeddings_list' = <<>> /\ sent' = <<>> /\ ipc' = "start"
  /\ UNCHANGED <<variant, prefDim, docs, manifest, chunksFile, embFile>>
  /\ UNCHANGED IngestOthers
IngestAgain ==
  /\ ipc \in {"done", "returned", "raised"}
  /\ ~rerun
  /\ rerun' = TRUE
  /\ chunksBefore' = chunksFile /\ embBefore' = embFile
  /\ di' = 1 /\ next_id' = 0 /\ metadata' = <<>> /\ all_texts' = <<>>
  /\ bi' = 0 /\ embeddings_list' = <<>> /\ sent' = <<>> /\ ipc' = "start"
  /\ UNCHANGED <<variant, prefDim, docs, manifest, chunksFile, embFile>>
  /\ UNCHANGED IngestOthers

IngestNext ==
  \/ IngestProviderFails
  \/ IngestNothingToRead
  \/ IngestBegin
  \/ IngestDoc
  \/ IngestDocsDone
  \/ EmbedBatch
  \/ EmbedBatchRaises
  \/ EmbedDone
  \/ IngestSaveFirst
  \/ IngestSaveSecond
  \/ IngestAgain

(***************************************************************************)
(* The index: build_or_load_vectorstore (src/rag_chain.py), load_vectorstore *)
(* (jls core/rag_chain.py), build_index (both), build_faiss_index.         *)
(***************************************************************************)
MaxChunks == 2

NoFaiss == [exists |-> FALSE, vecs |-> <<>>, dim |-> 0]
NoPkl == [exists |-> FALSE, docs |-> <<>>]
NoIndexDir == [faiss |-> NoFaiss, pkl |-> NoPkl]
NoMetadataFile == [exists |-> FALSE, lines |-> <<>>]
EmptyStore == [vecs |-> <<>>, dim |-> 0, docs |-> <<>>]

\* faiss_index_path.exists()
PathExists(dir) == dir.faiss.exists \/ dir.pkl.exists

\* vs.save_local(path): index.faiss holds the vectors, index.pkl the docstore
SaveLocal(vs) ==
  [faiss |-> [exists |-> TRUE, vecs |-> vs.vecs, dim |-> vs.dim],
   pkl   |-> [exists |-> TRUE, docs |-> vs.docs]]

\* FAISS.load_local(path, embedder)
LoadLocal(dir) ==
  [vecs |-> dir.faiss.vecs, dim |-> dir.faiss.dim, docs |-> dir.pkl.docs]

NoRet == [kind |-> "none", index |-> EmptyStore, qdim |-> 0, err |-> ""]
\* the call returns vectorstore vs, which embeds queries in qd dimensions
Returned(vs, qd) == [kind |-> "index", index |-> vs, qdim |-> qd, err |-> ""]
ReturnedNone == [kind |-> "nothing", index |-> EmptyStore, qdim |-> 0, err |-> ""]
Raised(e) == [kind |-> "error", index |-> EmptyStore, qdim |-> 0, err |-> e]

\* What an ingestion run leaves in CHUNKS_DIR: n lines, and m rows of d
\* columns (m # n after a backend returned too few or too many vectors).
MkChunks(n) ==
  [exists |-> TRUE,
   lines |-> [j \in 1..n |-> [id |-> j - 1, source |-> 1, page |-> 1,
                               text |-> <<1, 1, j>>]]]
MkEmb(n, m, d) ==
  [exists |-> TRUE,
   rows |-> [j \in 1..m |-> IF j <= n THEN Vec(<<1, 1, j>>) ELSE Stray],
   dim |-> d]
FilePairs(d) ==
  {<<NoChunksFile, NoEmbFile>>} \cup
  {<<MkChunks(n), MkEmb(n, m, d)>> :
     n \in 1..MaxChunks, m \in 1..(MaxChunks + 1)}

IndexInit ==
  /\ variant \in Variants
  /\ prefDim \in Dims
  /\ \E fp \in FilePairs(prefDim) :
        /\ chunksFile = fp[1]
        /\ embFile = fp[2]
        /\ Len(fp[2].rows) \in {Len(fp[1].lines) - 1, Len(fp[1].lines),
                                Len(fp[1].lines) + 1}
  /\ indexDir = NoIndexDir
  /\ faissIndexFile = NoFaiss
  /\ metadataFile = NoMetadataFile
  /\ op = [name |-> "none", force |-> FALSE, before |-> NoIndexDir]
  /\ ret = NoRet

IndexIdle ==
  /\ indexDir = NoIndexDir
  /\ faissIndexFile = NoFaiss
  /\ metadataFile = NoMetadataFile
  /\ op = [name |-> "none", force |-> FALSE, before |-> NoIndexDir]
  /\ ret = NoRet

\* texts and metadatas read from chunks.jsonl (src/rag_chain.py)
DocsOfChunks ==
  [j \in 1..Len(chunksFile.lines) |->
     [text |-> chunksFile.lines[j].text, source |-> chunksFile.lines[j].source,
      page |-> chunksFile.lines[j].page]]

\* FAISS.from_embeddings(zip(texts, precomputed_vectors), ...)
FromEmbeddings ==
  [vecs |-> embFile.rows, dim |-> embFile.dim, docs |-> DocsOfChunks]

\* if faiss_index_path.exists() and not force_rebuild
ShouldLoadAlways(force) == PathExists(indexDir)
ShouldLoad(force) == PathExists(indexDir) /\ ~force

\* if len(texts) != precomputed_vectors.shape[0]: raise ValueError
CountMismatch == Len(DocsOfChunks) # Len(embFile.rows)

\* the build branch of build_or_load_vectorstore; qdim is the dimension of the
\* query embedder, sanity_ok whether its embed_query("sanity-check") returns
BuildFromFilesSavesFirst(qdim, sanity_ok) ==
  IF ~chunksFile.exists \/ ~embFile.exists
  THEN [ret |-> Raised("source_files_missing"), dir |-> indexDir]
  ELSE IF CountMismatch
  THEN [ret |-> Raised("count_mismatch"), dir |-> indexDir]
  ELSE IF ~sanity_ok \/ qdim # embFile.dim
  THEN [ret |-> Raised("dimension_check_failed"), dir |-> SaveLocal(FromEmbeddings)]
  ELSE [ret |-> Returned(FromEmbeddings, qdim), dir |-> SaveLocal(FromEmbeddings)]
BuildFromFiles(qdim, sanity_ok) ==
  IF ~chunksFile.exists \/ ~embFile.exists
  THEN [ret |-> Raised("source_files_missing"), dir |-> indexDir]
  ELSE IF CountMismatch
  THEN [ret |-> Raised("count_mismatch"), dir |-> indexDir]
  ELSE IF ~sanity_ok \/ qdim # embFile.dim
  THEN [ret |-> Raised("dimension_check_failed"), dir |-> indexDir]
  ELSE [ret |-> Returned(FromEmbeddings, qdim), dir |-> SaveLocal(FromEmbeddings)]

\* the query embedder build_or_load_vectorstore ends up with: the preferred one,
\* the GoogleGenerativeAIEmbeddings fallback when get_preferred_embedder raised,
\* or none when both raised
QueryEmbedders == {"preferred", "fallback", "none"}

\* build_or_load_vectorstore(force_rebuild): api_key is whether GEMINI_API_KEY is
\* set, embedder the query embedder made, fdim the dimension of the fallback
BuildOrLoadOutcome(force, api_key, embedder, fdim, sanity_ok) ==
  LET qdim == IF embedder = "preferred" THEN prefDim ELSE fdim
  IN  IF ~api_key
      THEN [ret |-> Raised("no_api_key"), dir |-> indexDir]
      ELSE IF embedder = "none"
      THEN [ret |-> Raised("no_query_embedder"), dir |-> indexDir]
      ELSE IF ShouldLoad(force)
      THEN [ret |-> Returned(LoadLocal(indexDir), qdim), dir |-> indexDir]
      ELSE BuildFromFiles(qdim, sanity_ok)

IndexFrame ==
  /\ UNCHANGED <<variant, chunksFile, embFile, prefDim>>
  /\ UNCHANGED IndexOthers

BuildOrLoadVectorstore ==
  /\ variant = "sop"
  /\ \E force, api_key, sanity_ok \in BOOLEAN :
     \E embedder \in QueryEmbedders :
     \E fdim \in (IF embedder = "fallback" THEN Dims ELSE {prefDim}) :
        LET out == BuildOrLoadOutcome(force, api_key, embedder, fdim, sanity_ok)
        IN  /\ op' = [name |-> "build_or_load_vectorstore", force |-> force,
                      before |-> indexDir]
            /\ ret' = out.ret
            /\ indexDir' = out.dir
  /\ UNCHANGED <<faissIndexFile, metadataFile>>
  /\ IndexFrame

\* if not faiss_index_path.exists(): raise FileNotFoundError
IndexMissingNever(dir) == FALSE
IndexMissing(dir) == ~PathExists(dir)

\* load_vectorstore(); api_key: GeminiEmbedder() finds GEMINI_API_KEY
LoadVectorstoreOutcome(api_key) ==
  IF IndexMissing(indexDir) THEN Raised("index_not_found")
  ELSE IF ~api_key THEN Raised("no_api_key")
  ELSE Returned(LoadLocal(indexDir), prefDim)

LoadVectorstore ==
  /\ variant = "jls"
  /\ \E api_key \in BOOLEAN :
        /\ op' = [name |-> "load_vectorstore", force |-> FALSE, before |-> indexDir]
        /\ ret' = LoadVectorstoreOutcome(api_key)
  /\ UNCHANGED <<indexDir, faissIndexFile, metadataFile>>
  /\ IndexFrame

\* the documents build_index makes of the lines, and FAISS.from_documents
\* embedding each of them with the current model
FromDocuments ==
  [vecs |-> [j \in 1..Len(DocsOfChunks) |-> Vec(DocsOfChunks[j].text)],
   dim |-> prefDim, docs |-> DocsOfChunks]

\* build_index(force_rebuild) of scripts/build_index.py and of
\* jls_chatbot/pipeline/build_index.py; embed_ok: the backend answers
BuildIndexOutcome(force, api_key, embed_ok) ==
  IF PathExists(indexDir) /\ ~force
  THEN [ret |-> ReturnedNone, dir |-> indexDir]
  ELSE IF ~chunksFile.exists
  THEN [ret |-> Raised("chunks_missing"), dir |-> indexDir]
  ELSE IF ~api_key
  THEN [ret |-> Raised("no_api_key"), dir |-> indexDir]
  ELSE IF ~embed_ok
  THEN [ret |-> Raised("embedding_failed"), dir |-> indexDir]
  ELSE [ret |-> ReturnedNone, dir |-> SaveLocal(FromDocuments)]

BuildIndex ==
  /\ \E force, api_key, embed_ok \in BOOLEAN :
        LET out == BuildIndexOutcome(force, api_key, embed_ok)
        IN  /\ op' = [name |-> "build_index", force |-> force, before |-> indexDir]
            /\ ret' = out.ret
            /\ indexDir' = out.dir
  /\ UNCHANGED <<faissIndexFile, metadataFile>>
  /\ IndexFrame

\* build_faiss_index(): np.load, index.add, write_index, then the metadata copy
BuildFaissIndex ==
  /\ variant = "sop"
  /\ op' = [name |-> "build_faiss_index", force |-> TRUE, before |-> indexDir]
  /\ IF ~embFile.exists
     THEN /\ ret' = Raised("embeddings_missing")
          /\ UNCHANGED <<faissIndexFile, metadataFile>>
     ELSE /\ faissIndexFile' =
               [exists |-> TRUE, vecs |-> embFile.rows, dim |-> embFile.dim]
          /\ IF ~chunksFile.exists
             THEN /\ ret' = Raised("chunks_missing")
                  /\ UNCHANGED metadataFile
             ELSE /\ ret' = ReturnedNone
                  /\ metadataFile' = [exists |-> TRUE, lines |-> chunksFile.lines]
  /\ UNCHANGED indexDir
  /\ IndexFrame

\* the operator runs ingestion again: CHUNKS_DIR holds the files of another run
ReIngest ==
  /\ \E fp \in FilePairs(prefDim) :
        /\ fp[1].exists
        /\ fp[1] # chunksFile
        /\ Len(fp[2].rows) \in {Len(fp[1].lines) - 1, Len(fp[1].lines),
                                Len(fp[1].lines) + 1}
        /\ chunksFile' = fp[1]
        /\ embFile' = fp[2]
  /\ op' = [name |-> "ingest", force |-> FALSE, before |-> indexDir]
  /\ ret' = NoRet
  /\ UNCHANGED <<variant, prefDim, indexDir, faissIndexFile, metadataFile>>
  /\ UNCHANGED IndexOthers

\* EMBEDDING_MODEL is set to a model of another dimension
ChangeEmbeddingModel ==
  /\ \E d \in Dims : d # prefDim /\ prefDim' = d
  /\ op' = [name |-> "configure", force |-> FALSE, before |-> indexDir]
  /\ ret' = NoRet
  /\ UNCHANGED <<variant, chunksFile, embFile, indexDir, faissIndexFile,
                 metadataFile>>
  /\ UNCHANGED IndexOthers

IndexNext ==
  \/ BuildOrLoadVectorstore
  \/ LoadVectorstore
  \/ BuildIndex
  \/ BuildFaissIndex
  \/ ReIngest
  \/ ChangeEmbeddingModel

(***************************************************************************)
(* "Rebuild index (force)" of app/streamlit_app.py in one session while    *)
(* other sessions answer queries: every answer_query loads the index from  *)
(* INDEX_DIR/faiss_index (make_qa_chain calls build_or_load_vectorstore).  *)
(* save_local writes index.faiss and then index.pkl into the directory     *)
(* itself; load_local reads index.faiss and then index.pkl.                *)
(***************************************************************************)
NReaders == 2
Readers == 1..NReaders

\* the index an earlier build persisted from n lines embedded in d dimensions
EarlierIndex(n, d) ==
  SaveLocal([vecs |-> MkEmb(n, n, d).rows, dim |-> d,
             docs |-> [j \in 1..n |-> [text |-> <<1, 1, j>>, source |-> 1,
                                        page |-> 1]]])

RebuildInit ==
  /\ variant = "sop"
  /\ prefDim \in Dims
  /\ \E fp \in FilePairs(prefDim) :
        /\ fp[1].exists
        /\ chunksFile = fp[1]
        /\ embFile = fp[2]
        /\ Len(fp[2].rows) \in {Len(fp[1].lines) - 1, Len(fp[1].lines),
                                Len(fp[1].lines) + 1}
  /\ \E n \in 1..MaxChunks : \E d \in Dims : indexDir = EarlierIndex(n, d)
  /\ faissIndexFile = NoFaiss
  /\ metadataFile = NoMetadataFile
  /\ op = [name |-> "none", force |-> FALSE, before |-> indexDir]
  /\ ret = NoRet
  /\ wpc = "idle"
  /\ wvs = EmptyStore
  /\ rpc = [r \in Readers |-> "idle"]
  /\ rfaiss = [r \in Readers |-> NoFaiss]
  /\ loaded = [r \in Readers |-> EmptyStore]

RebuildIdle ==
  /\ wpc = "idle"
  /\ wvs = EmptyStore
  /\ rpc = [r \in Readers |-> "idle"]
  /\ rfaiss = [r \in Readers |-> NoFaiss]
  /\ loaded = [r \in Readers |-> EmptyStore]

\* the button is pressed: build_or_load_vectorstore(force_rebuild=True) up to
\* FAISS.from_embeddings; it raises, or holds vs and goes on to save it
RebuildStart ==
  /\ wpc = "idle"
  /\ ~ShouldLoad(TRUE)
  /\ \E sanity_ok \in BOOLEAN :
        LET out == BuildFromFiles(prefDim, sanity_ok)
        IN  /\ op' = [name |-> "build_or_load_vectorstore", force |-> TRUE,
                      before |-> indexDir]
            /\ IF out.ret.kind = "index"
               THEN wvs' = out.ret.index /\ wpc' = "save_faiss" /\ ret' = NoRet
               ELSE wvs' = wvs /\ wpc' = "failed" /\ ret' = out.ret
  /\ UNCHANGED <<indexDir, rpc, rfaiss, loaded>>
  /\ UNCHANGED RebuildOthers

\* vs.save_local: faiss.write_index(index, path / "index.faiss")
RebuildWriteFaiss ==
  /\ wpc = "save_faiss"
  /\ indexDir' = [indexDir EXCEPT !.faiss = SaveLocal(wvs).faiss]
  /\ wpc' = "save_pkl"
  /\ UNCHANGED <<op, ret, wvs, rpc, rfaiss, loaded>>
  /\ UNCHANGED RebuildOthers

\* vs.save_local: pickle.dump of the docstore into index.pkl; return vs
RebuildWritePkl ==
  /\ wpc = "save_pkl"
  /\ indexDir' = [indexDir EXCEPT !.pkl = SaveLocal(wvs).pkl]
  /\ wpc' = "done"
  /\ ret' = Returned(wvs, prefDim)
  /\ UNCHANGED <<op, wvs, rpc, rfaiss, loaded>>
  /\ UNCHANGED RebuildOthers

\* a session asks: build_or_load_vectorstore(force_rebuild=False) finds the
\* path and goes to FAISS.load_local
QueryStart(r) ==
  /\ rpc[r] = "idle"
  /\ ShouldLoad(FALSE)
  /\ rpc' = [rpc EXCEPT ![r] = "read_faiss"]
  /\ UNCHANGED <<indexDir, op, ret, wpc, wvs, rfaiss, loaded>>
  /\ UNCHANGED RebuildOthers

\* load_local: faiss.read_index(path / "index.faiss")
QueryReadFaiss(r) ==
  /\ rpc[r] = "read_faiss"
  /\ rfaiss' = [rfaiss EXCEPT ![r] = indexDir.faiss]
  /\ rpc' = [rpc EXCEPT ![r] = "read_pkl"]
  /\ UNCHANGED <<indexDir, op, ret, wpc, wvs, loaded>>
  /\ UNCHANGED RebuildOthers

\* load_local: pickle.load of index.pkl; the vectorstore is returned
QueryReadPkl(r) ==
  /\ rpc[r] = "read_pkl"
  /\ loaded' = [loaded EXCEPT ![r] =
        [vecs |-> rfaiss[r].vecs, dim |-> rfaiss[r].dim,
         docs |-> indexDir.pkl.docs]]
  /\ rpc' = [rpc EXCEPT ![r] = "loaded"]
  /\ UNCHANGED <<indexDir, op, ret, wpc, wvs, rfaiss>>
  /\ UNCHANGED RebuildOthers

\* the query is answered; the session may ask again
QueryEnd(r) ==
  /\ rpc[r] = "loaded"
  /\ rpc' = [rpc EXCEPT ![r] = "idle"]
  /\ rfaiss' = [rfaiss EXCEPT ![r] = NoFaiss]
  /\ loaded' = [loaded EXCEPT ![r] = EmptyStore]
  /\ UNCHANGED <<indexDir, op, ret, wpc, wvs>>
  /\ UNCHANGED RebuildOthers

QueryLoads == \E r \in Readers : QueryStart(r)
QueryReadsFaiss == \E r \in Readers : QueryReadFaiss(r)
QueryReadsPkl == \E r \in Readers : QueryReadPkl(r)
QueryEnds == \E r \in Readers : QueryEnd(r)

RebuildNext ==
  \/ RebuildStart
  \/ RebuildWriteFaiss
  \/ RebuildWritePkl
  \/ QueryLoads
  \/ QueryReadsFaiss
  \/ QueryReadsPkl
  \/ QueryEnds

(***************************************************************************)
(* answer_query of src/rag_chain.py ("sop") and of                         *)
(* jls_chatbot/core/rag_chain.py ("jls").  The vectorstore is the one the  *)
(* call loaded; the embedding of the question and the text of the answer   *)
(* come from remote services, one input per call made.                     *)
(***************************************************************************)
MaxPassages == 3
MaxK == 2
MaxDist == 2
SnippetLen == 2

QueryVecs == {<<0, 1>>, <<1, 0>>}
\* what the LLM may say: an answer from the context, that the information is
\* not available, or anything else
Answers == {"grounded", "not_available", "garbled"}
SearchTypes == {"similarity", "similarity_score_threshold"}

PassageText(j) ==
  IF j = 1 THEN <<"a", "\n", "b">>
  ELSE IF j = 2 THEN <<"b">>
  ELSE <<"b", ".", "a">>

Stores ==
  UNION {{[vecs |-> f, dim |-> 2,
           docs |-> [j \in 1..n |-> [text |-> PassageText(j), source |-> j,
                                      page |-> 1]]] :
            f \in [1..n -> QueryVecs]} : n \in 1..MaxPassages}

\* squared L2 distance, the metric of the flat index
Dist(u, v) == (u[1] - v[1]) * (u[1] - v[1]) + (u[2] - v[2]) * (u[2] - v[2])

RECURSIVE Nearest(_, _, _, _)
Nearest(vs, q, cands, n) ==
  IF n = 0 \/ cands = {} THEN <<>>
  ELSE LET best == CHOOSE i \in cands : \A j \in cands :
                      \/ Dist(vs.vecs[i], q) < Dist(vs.vecs[j], q)
                      \/ Dist(vs.vecs[i], q) = Dist(vs.vecs[j], q) /\ i <= j
       IN  <<best>> \o Nearest(vs, q, cands \ {best}, n - 1)

RECURSIVE WithinThreshold(_, _, _, _)
WithinThreshold(vs, q, hits, thr) ==
  IF hits = <<>> THEN <<>>
  ELSE IF Dist(vs.vecs[Head(hits)], q) <= thr
       THEN <<Head(hits)>> \o WithinThreshold(vs, q, Tail(hits), thr)
       ELSE WithinThreshold(vs, q, Tail(hits), thr)

\* retriever.invoke once the question is embedded as q
Retrieve(vs, q, stype, n, thr) ==
  LET hits == Nearest(vs, q, DOMAIN vs.vecs, n)
      kept == IF stype = "similarity_score_threshold"
              THEN WithinThreshold(vs, q, hits, thr) ELSE hits
  IN  [j \in 1..Len(kept) |-> vs.docs[kept[j]]]

\* text[:n].replace("\n", " ")
Snippet(t, n) ==
  [i \in 1..Min(n, Len(t)) |-> IF t[i] = "\n" THEN " " ELSE t[i]]

\* one entry of sources; jls keeps title and link where sop keeps source,
\* section where sop keeps page, and always ends the snippet with "..."
SourceEntry(v, doc) ==
  IF v = "sop"
  THEN [source |-> doc.source, page |-> doc.page,
        snippet |-> Snippet(doc.text, SnippetLen)]
  ELSE [source |-> doc.source, page |-> doc.page,
        snippet |-> Snippet(doc.text, SnippetLen) \o <<"...">>]

SourcesOf(v, documents) ==
  [j \in 1..Len(documents) |-> SourceEntry(v, documents[j])]

NoAnswer == "none"

AnswerInit ==
  /\ variant \in Variants
  /\ vectorstore \in Stores
  /\ top_k \in 1..MaxK
  /\ search_type \in SearchTypes
  /\ variant = "sop" => search_type = "similarity"
  /\ score_threshold \in
        IF search_type = "similarity" THEN {MaxDist} ELSE {0, MaxDist}
  /\ apc = "chain"
  /\ context_docs = <<>>
  /\ answer_text = NoAnswer
  /\ sources = <<>>

AnswerIdle ==
  /\ vectorstore = EmptyStore
  /\ top_k = 1
  /\ search_type = "similarity"
  /\ score_threshold = 0
  /\ apc = "idle"
  /\ context_docs = <<>>
  /\ answer_text = NoAnswer
  /\ sources = <<>>

AnswerFrame == UNCHANGED <<variant, vectorstore, top_k, search_type,
                           score_threshold>>

\* qa_chain.invoke(question), first half: the retriever embeds the question
\* and its documents go to format_docs
ChainRetrieve ==
  /\ apc = "chain"
  /\ \E q \in QueryVecs :
        context_docs' = Retrieve(vectorstore, q, search_type, top_k,
                                 score_threshold)
  /\ apc' = "llm"
  /\ UNCHANGED <<answer_text, sources>>
  /\ AnswerFrame
  /\ UNCHANGED AnswerOthers

\* qa_chain.invoke(question), second half: the LLM answers.  sop goes on to
\* retriever.invoke(question); jls builds sources from result["documents"]
ChainGenerate ==
  /\ apc = "llm"
  /\ \E a \in Answers : answer_text' = a
  /\ IF variant = "sop"
     THEN apc' = "source_docs" /\ sources' = sources
     ELSE apc' = "returned" /\ sources' = SourcesOf(variant, context_docs)
  /\ UNCHANGED context_docs
  /\ AnswerFrame
  /\ UNCHANGED AnswerOthers

\* sop: source_docs = retriever.invoke(question) embeds the question again;
\* sources are built from source_docs
SourceDocsRetrieve ==
  /\ apc = "source_docs"
  /\ variant = "sop"
  /\ \E q \in QueryVecs :
        sources' = SourcesOf(variant,
                     Retrieve(vectorstore, q, search_type, top_k,
                              score_threshold))
  /\ apc' = "returned"
  /\ UNCHANGED <<context_docs, answer_text>>
  /\ AnswerFrame
  /\ UNCHANGED AnswerOthers

\* a call to the embedding service or to the LLM raises: no result
AnswerRaises ==
  /\ apc \in {"chain", "llm", "source_docs"}
  /\ apc' = "raised"
  /\ UNCHANGED <<context_docs, answer_text, sources>>
  /\ AnswerFrame
  /\ UNCHANGED AnswerOthers

AnswerNext ==
  \/ ChainRetrieve
  \/ ChainGenerate
  \/ SourceDocsRetrieve
  \/ AnswerRaises

(***************************************************************************)
(* GeminiEmbedder of src/embedder.py ("sop") and of                        *)
(* jls_chatbot/core/embedder.py ("jls"): embed_texts, embed_documents and  *)
(* embed_query on top of _embed_and_normalize.  A text is a sequence of    *)
(* characters; a numpy array is its number of dimensions and its rows.     *)
(***************************************************************************)
MaxTexts == 2

EmbedTextSet == {<<"a">>, <<"b">>}
TextLists == UNION {[1..n -> EmbedTextSet] : n \in 0..MaxTexts}
ExtraVector == <<"x">>

NoResponse == [kind |-> "none", rows |-> <<>>]

\* What the backend may answer to embed_content for these texts: it raises; a
\* response without embeddings; a response whose i-th item is not a vector; a
\* list of vectors, one for each text, one too few or one too many.
BackendResponses(texts) ==
  LET ok == [j \in 1..Len(texts) |-> Vec(texts[j])]
  IN  {[kind |-> "raises", rows |-> <<>>],
       [kind |-> "no_embeddings", rows |-> <<>>]}
      \cup {[kind |-> "bad_item", rows |-> SubSeq(ok, 1, i - 1)] :
               i \in 1..Len(texts)}
      \cup {[kind |-> "vectors", rows |-> r] :
               r \in {ok, SubSeq(ok, 1, Len(ok) - 1), Append(ok, ExtraVector)}}

\* np.array(list): an empty list gives a 1-D array of shape (0,)
NpArray(rows) == [ndim |-> IF rows = <<>> THEN 1 ELSE 2, rows |-> rows]
\* np.zeros((0, 0))
Zeros00 == [ndim |-> 2, rows |-> <<>>]
\* if arr.ndim == 1: arr = arr.reshape(1, -1)
Reshape1(arr) ==
  IF arr.ndim = 1 THEN [ndim |-> 2, rows |-> <<arr.rows>>] ELSE arr

\* sop: _call_embed_api then _extract_vectors_from_response; jls: the try block
\* of _embed.  Any failure raises and keeps no vector.
ExtractVectorsKeepsParsed(resp) ==
  IF resp.kind \in {"vectors", "bad_item"}
  THEN [raised |-> FALSE, vectors |-> resp.rows]
  ELSE [raised |-> TRUE, vectors |-> <<>>]
ExtractVectors(resp) ==
  IF resp.kind = "vectors"
  THEN [raised |-> FALSE, vectors |-> resp.rows]
  ELSE [raised |-> TRUE, vectors |-> <<>>]

\* _embed_and_normalize(texts); norms do not change the shape
EmbedAndNormalize(v, texts, resp) ==
  IF texts = <<>>
  THEN [raised |-> FALSE, calls |-> 0,
        arr |-> IF v = "sop" THEN Zeros00 ELSE Reshape1(NpArray(<<>>))]
  ELSE LET x == ExtractVectors(resp)
       IN  IF x.raised
           THEN [raised |-> TRUE, calls |-> 1, arr |-> Zeros00]
           ELSE [raised |-> FALSE, calls |-> 1,
                 arr |-> Reshape1(NpArray(x.vectors))]

EmbedRaise(n) == [kind |-> "raise", value |-> <<>>, calls |-> n]

\* embed_texts(texts): the array itself
EmbedTexts(v, texts, resp) ==
  LET r == EmbedAndNormalize(v, texts, resp)
  IN  IF r.raised THEN EmbedRaise(r.calls)
      ELSE [kind |-> "array", value |-> r.arr.rows, calls |-> r.calls]

\* embed_documents(texts): arr.tolist(); jls returns [] for no texts first
EmbedDocuments(v, texts, resp) ==
  IF v = "jls" /\ texts = <<>>
  THEN [kind |-> "list", value |-> <<>>, calls |-> 0]
  ELSE LET r == EmbedAndNormalize(v, texts, resp)
       IN  IF r.raised THEN EmbedRaise(r.calls)
           ELSE [kind |-> "list", value |-> r.arr.rows, calls |-> r.calls]

\* embed_query(text): arr[0].tolist(); jls returns [] for an empty text first
EmbedQuery(v, t, resp) ==
  IF v = "jls" /\ t = <<>>
  THEN [kind |-> "list", value |-> <<>>, calls |-> 0]
  ELSE LET r == EmbedAndNormalize(v, <<t>>, resp)
       IN  IF r.raised THEN EmbedRaise(r.calls)
           ELSE [kind |-> "vector", value |-> r.arr.rows[1], calls |-> r.calls]

EmbedderLocalsInit ==
  /\ ecall = [entry |-> "none", texts |-> <<>>]
  /\ eresp = NoResponse
  /\ backend_calls = 0
  /\ eret = [kind |-> "none", value |-> <<>>, calls |-> 0]

EmbedderInit ==
  /\ variant \in Variants
  /\ EmbedderLocalsInit

EmbedderIdle == EmbedderLocalsInit

EmbedderFrame == UNCHANGED EmbedderOthers

\* the backend is asked only by a call that reaches embed_content
Asked(out, resp) == IF out.calls = 0 THEN NoResponse ELSE resp

EmbedTextsCall ==
  /\ \E texts \in TextLists :
     \E resp \in BackendResponses(texts) :
        LET out == EmbedTexts(variant, texts, resp)
        IN  /\ ecall' = [entry |-> "embed_texts", texts |-> texts]
            /\ eresp' = Asked(out, resp)
            /\ backend_calls' = out.calls
            /\ eret' = out
  /\ EmbedderFrame

EmbedDocumentsCall ==
  /\ \E texts \in TextLists :
     \E resp \in BackendResponses(texts) :
        LET out == EmbedDocuments(variant, texts, resp)
        IN  /\ ecall' = [entry |-> "embed_documents", texts |-> texts]
            /\ eresp' = Asked(out, resp)
            /\ backend_calls' = out.calls
            /\ eret' = out
  /\ EmbedderFrame

EmbedQueryCall ==
  /\ \E t \in EmbedTextSet \cup {<<>>} :
     \E resp \in BackendResponses(<<t>>) :
        LET out == EmbedQuery(variant, t, resp)
        IN  /\ ecall' = [entry |-> "embed_query", texts |-> <<t>>]
            /\ eresp' = Asked(out, resp)
            /\ backend_calls' = out.calls
            /\ eret' = out
  /\ EmbedderFrame

EmbedderNext ==
  \/ EmbedTextsCall
  \/ EmbedDocumentsCall
  \/ EmbedQueryCall

(***************************************************************************)
(* retrieve of src/qa_chain.py over INDEX_DIR/faiss.index and              *)
(* INDEX_DIR/metadata.jsonl, the two files build_faiss_index writes.       *)
(***************************************************************************)
MaxTopK == 3

QueryVectors == {<<1, 1, 1>>, <<1, 1, -1>>, <<-1, -1, -1>>}

\* inner product, the score of IndexFlatIP
Dot(u, v) == u[1] * v[1] + u[2] * v[2] + u[3] * v[3]

\* the positions (0-based) of the n best vectors, best first
RECURSIVE BestFirst(_, _, _, _)
BestFirst(vecs, q, cands, n) ==
  IF n = 0 \/ cands = {} THEN <<>>
  ELSE LET best == CHOOSE i \in cands : \A j \in cands :
                      \/ Dot(vecs[i], q) > Dot(vecs[j], q)
                      \/ Dot(vecs[i], q) = Dot(vecs[j], q) /\ i <= j
       IN  <<best - 1>> \o BestFirst(vecs, q, cands \ {best}, n - 1)

\* I[0] of index.search(qvec, top_k): top_k slots, the unfilled ones -1
IndexSearch(vecs, q, n) ==
  LET hits == BestFirst(vecs, q, DOMAIN vecs, n)
  IN  [j \in 1..n |-> IF j <= Len(hits) THEN hits[j] ELSE -1]

\* if idx < 0: continue
SlotIsEmptyNever(idx) == FALSE
SlotIsEmpty(idx) == idx < 0

\* meta[idx] of a Python list: negative idx counts from the end
MetaInRange(meta, idx) == idx < Len(meta) /\ idx >= -Len(meta)
MetaAt(meta, idx) == IF idx < 0 THEN meta[Len(meta) + idx + 1] ELSE meta[idx + 1]

\* the for loop of retrieve over the slots; meta[idx] out of range raises
RECURSIVE CollectResults(_, _, _, _)
CollectResults(slots, vecs, q, meta) ==
  IF slots = <<>> THEN [raised |-> FALSE, results |-> <<>>]
  ELSE LET idx == Head(slots)
           rest == CollectResults(Tail(slots), vecs, q, meta)
       IN  IF SlotIsEmpty(idx) THEN rest
           ELSE IF ~MetaInRange(meta, idx)
           THEN [raised |-> TRUE, results |-> <<>>]
           ELSE IF rest.raised THEN rest
           ELSE [raised |-> FALSE,
                 results |-> <<[score |-> IF idx < 0 THEN 0
                                          ELSE Dot(vecs[idx + 1], q),
                                metadata |-> MetaAt(meta, idx)]>>
                             \o rest.results]

NoResults == [kind |-> "none", results |-> <<>>, err |-> ""]
RetrieveRaised(e) == [kind |-> "error", results |-> <<>>, err |-> e]

\* retrieve(query, embedder, top_k): q is the embedding of the query, qdim its
\* dimension, embed_ok whether embedder.embed_texts returned
RetrieveOutcome(q, qdim, n, embed_ok) ==
  IF ~faissIndexFile.exists \/ ~metadataFile.exists
  THEN RetrieveRaised("index_files_missing")
  ELSE IF ~embed_ok
  THEN RetrieveRaised("embedding_failed")
  ELSE IF qdim # faissIndexFile.dim
  THEN RetrieveRaised("dimension_mismatch")
  ELSE LET c == CollectResults(IndexSearch(faissIndexFile.vecs, q, n),
                               faissIndexFile.vecs, q, metadataFile.lines)
       IN  IF c.raised THEN RetrieveRaised("index_error")
           ELSE [kind |-> "results", results |-> c.results, err |-> ""]

RetrieveLocalsInit ==
  /\ rcall = [q |-> <<0, 0, 0>>, qdim |-> 0, top_k |-> 0]
  /\ rret = NoResults

RetrieveIdle == RetrieveLocalsInit

\* the files are absent, or as a build_faiss_index left them
RetrieveInit ==
  /\ variant = "sop"
  /\ prefDim \in Dims
  /\ \E fp \in FilePairs(prefDim) :
        /\ chunksFile = fp[1]
        /\ embFile = fp[2]
        /\ fp[1].exists =>
              Len(fp[2].rows) \in {Len(fp[1].lines) - 1, Len(fp[1].lines),
                                    Len(fp[1].lines) + 1}
        /\ IF fp[1].exists
           THEN /\ faissIndexFile = [exists |-> TRUE, vecs |-> fp[2].rows,
                                     dim |-> fp[2].dim]
                /\ metadataFile = [exists |-> TRUE, lines |-> fp[1].lines]
           ELSE /\ faissIndexFile = NoFaiss
                /\ metadataFile = NoMetadataFile
  /\ indexDir = NoIndexDir
  /\ op = [name |-> "none", force |-> FALSE, before |-> NoIndexDir]
  /\ ret = NoRet
  /\ RetrieveLocalsInit

RetrieveCall ==
  /\ \E q \in QueryVectors : \E qdim \in Dims : \E n \in 1..MaxTopK :
     \E embed_ok \in BOOLEAN :
        /\ rcall' = [q |-> q, qdim |-> qdim, top_k |-> n]
        /\ rret' = RetrieveOutcome(q, qdim, n, embed_ok)
  /\ UNCHANGED RetrieveOthers

RetrieveNext == RetrieveCall

(***************************************************************************)
(* The context of the prompt: format_docs of jls_chatbot/core/rag_chain.py, *)
(* format_docs of src/rag_chain.py and build_context of src/qa_chain.py.   *)
(* A string is a sequence of pieces: the literal parts of the f-strings    *)
(* and the field values.  A document is a passage number and whether its   *)
(* page_content was made by build_index (fields in front of the text) or   *)
(* by build_or_load_vectorstore (the text alone).                          *)
(***************************************************************************)
MaxFmtDocs == 3

Formatters == {"jls_format_docs", "sop_format_docs", "build_context"}
\* the passages of the index
FmtIds == {1, 2, 3}
FmtDocs == [id : FmtIds, prefixed : BOOLEAN]
FmtDocLists == UNION {[1..n -> FmtDocs] : n \in 0..MaxFmtDocs}

TitleOf(d) == <<"title1", "title2", "title3">>[d.id]
SectionOf(d) == <<"section1", "section2", "section3">>[d.id]
AuthorOf(d) == <<"author1", "author2", "author3">>[d.id]
DateOf(d) == <<"date1", "date2", "date3">>[d.id]
SourceOf(d) == <<"source1", "source2", "source3">>[d.id]
PageOf(d) == <<"page1", "page2", "page3">>[d.id]
\* the chunk text: clean_text left no newline in it
OriginalTextOf(d) == <<<<"text1">>, <<"text2">>, <<"text3">>>>[d.id]

\* content_to_embed of scripts/build_index.py
ContentToEmbed(d) ==
  <<"SOP Title: ", SourceOf(d), "\n", "Author: ", AuthorOf(d), "\n",
    "Date: ", DateOf(d), "\n", "Section: ", SectionOf(d), "\n\n",
    "Content: ">> \o OriginalTextOf(d)

\* doc.page_content of a document of the sop index
PageContent(d) == IF d.prefixed THEN ContentToEmbed(d) ELSE OriginalTextOf(d)

\* the string made for one document
DocBlock(fmt, d) ==
  IF fmt = "jls_format_docs"
  THEN <<"Source Document: ", TitleOf(d), "\n", "Section: ", SectionOf(d), "\n",
         "Author: ", AuthorOf(d), ", Date: ", DateOf(d), "\n",
         "Content Snippet: ">> \o OriginalTextOf(d)
  ELSE IF fmt = "sop_format_docs"
  THEN <<"Source: ", SourceOf(d), ", Page: ", PageOf(d), "\n", "Content: ">>
       \o PageContent(d)
  ELSE <<"Source: ", SourceOf(d), " (page:", PageOf(d), ")", "\n">>
       \o OriginalTextOf(d) \o <<"\n", "---">>

\* the separator of the join
Separator(fmt) ==
  IF fmt = "jls_format_docs" THEN "\n\n---\n\n"
  ELSE IF fmt = "sop_format_docs" THEN "\n\n"
  ELSE "\n"

\* the strings made for the documents, in the order of the documents
DocBlocksReversed(fmt, ds) ==
  [j \in 1..Len(ds) |-> DocBlock(fmt, ds[Len(ds) + 1 - j])]
DocBlocks(fmt, ds) == [j \in 1..Len(ds) |-> DocBlock(fmt, ds[j])]

\* sep.join(parts)
RECURSIVE Join(_, _)
Join(parts, sep) ==
  IF parts = <<>> THEN <<>>
  ELSE IF Len(parts) = 1 THEN parts[1]
  ELSE parts[1] \o <<sep>> \o Join(Tail(parts), sep)

FormatDocs(fmt, ds) == Join(DocBlocks(fmt, ds), Separator(fmt))

FormatLocalsInit ==
  /\ fcall = [fmt |-> "none", docs |-> <<>>]
  /\ fcontext = <<>>

FormatIdle == FormatLocalsInit

FormatCall ==
  /\ fcall.fmt = "none"
  /\ \E fmt \in Formatters : \E ds \in FmtDocLists :
        \* only the sop index holds documents made either way
        /\ fmt # "sop_format_docs" => \A j \in 1..Len(ds) : ~ds[j].prefixed
        /\ fcall' = [fmt |-> fmt, docs |-> ds]
        /\ fcontext' = FormatDocs(fmt, ds)
  /\ UNCHANGED FormatOthers

\* the chain is done with the string: the next request formats anew
FormatReturn ==
  /\ fcall.fmt # "none"
  /\ fcall' = [fmt |-> "none", docs |-> <<>>]
  /\ fcontext' = <<>>
  /\ UNCHANGED FormatOthers

FormatNext == FormatCall \/ FormatReturn

(***************************************************************************)
(* clean_text of jls_chatbot/core/utils.py and _normalize_whitespace of    *)
(* src/pdf_text_extractor.py.  A string is a sequence of characters.       *)
(***************************************************************************)
MaxStr == 5

CleanChars == {"a", " ", "\t", "\n", "\r"}
\* the characters that \s matches, and the ones that [ \t] matches
Whitespace == {" ", "\t", "\n", "\r"}
Blanks == {" ", "\t"}
Strings == UNION {[1..n -> CleanChars] : n \in 0..MaxStr}

\* s.replace(old, new) for single characters
Replace(s, old, new) == [i \in 1..Len(s) |-> IF s[i] = old THEN new ELSE s[i]]

\* the length of the longest prefix of s made of characters of cs
RECURSIVE RunLength(_, _)
RunLength(s, cs) ==
  IF s = <<>> \/ Head(s) \notin cs THEN 0 ELSE 1 + RunLength(Tail(s), cs)

\* re.sub of a greedy run pattern cs{least,}: every maximal run of at least
\* `least` characters of cs becomes repl, left to right
RECURSIVE SubRuns(_, _, _, _)
SubRuns(s, cs, least, repl) ==
  IF \A i \in 1..Len(s) : s[i] \notin cs THEN s
  ELSE LET i == CHOOSE k \in 1..Len(s) :
                  s[k] \in cs /\ \A m \in 1..(k - 1) : s[m] \notin cs
           n == RunLength(SubSeq(s, i, Len(s)), cs)
       IN  SubSeq(s, 1, i - 1)
           \o (IF n >= least THEN repl ELSE SubSeq(s, i, i + n - 1))
           \o SubRuns(SubSeq(s, i + n, Len(s)), cs, least, repl)

\* s.strip()
RECURSIVE LStrip(_)
LStrip(s) ==
  IF s # <<>> /\ Head(s) \in Whitespace THEN LStrip(Tail(s)) ELSE s
RECURSIVE RStrip(_)
RStrip(s) ==
  IF s # <<>> /\ s[Len(s)] \in Whitespace
  THEN RStrip(SubSeq(s, 1, Len(s) - 1)) ELSE s
Strip(s) == RStrip(LStrip(s))

clean_text_keeps_newlines(s) ==
  LET t1 == Replace(s, "\r", "\n")
      t2 == SubRuns(t1, {"\n"}, 3, <<"\n", "\n">>)
      t3 == SubRuns(t2, Blanks, 1, <<" ">>)
  IN  Strip(t3)
clean_text(s) ==
  LET t1 == Replace(s, "\r", "\n")
      t2 == SubRuns(t1, {"\n"}, 3, <<"\n", "\n">>)
      t3 == SubRuns(t2, Whitespace, 1, <<" ">>)
  IN  Strip(t3)

normalize_whitespace(s) ==
  LET t1 == Replace(s, "\r", "\n")
      t2 == SubRuns(t1, {"\n"}, 3, <<"\n", "\n">>)
      t3 == SubRuns(t2, Blanks, 1, <<" ">>)
  IN  Strip(t3)

CleanLocalsInit ==
  /\ ccall = [fn |-> "none", s |-> <<>>]
  /\ cret = <<>>

CleanIdle == CleanLocalsInit

CleanTextCall ==
  /\ ccall.fn = "none"
  /\ \E s \in Strings :
        /\ ccall' = [fn |-> "clean_text", s |-> s]
        /\ cret' = clean_text(s)
  /\ UNCHANGED CleanOthers

NormalizeWhitespaceCall ==
  /\ ccall.fn = "none"
  /\ \E s \in Strings :
        /\ ccall' = [fn |-> "_normalize_whitespace", s |-> s]
        /\ cret' = normalize_whitespace(s)
  /\ UNCHANGED CleanOthers

\* the caller is done with the string
CleanReturn ==
  /\ ccall.fn # "none"
  /\ ccall' = [fn |-> "none", s |-> <<>>]
  /\ cret' = <<>>
  /\ UNCHANGED CleanOthers

CleanNext == CleanTextCall \/ NormalizeWhitespaceCall \/ CleanReturn

(***************************************************************************)
(* The arithmetic of _embed_and_normalize (src/embedder.py and             *)
(* jls_chatbot/core/embedder.py): arr / (norm(arr) + 1e-10).  Numbers are  *)
(* exact multiples of 1e-10; a backend vector is a multiple of a base      *)
(* vector with integer norm, and a returned vector is such a vector over a *)
(* divisor.                                                                *)
(***************************************************************************)
MaxNormTexts == 2
\* the 1e-10 of the divisor, in units of 1e-10
Epsilon == 1

BaseVectors == {<<1, 0>>, <<0, 1>>, <<3, 4>>, <<4, 3>>}
\* multiples from nothing to 0.05, around 1e-4 / 5 and around 1e-4
Scales == {0, 1, 199999, 200000, 999998, 999999, 1000000, 100000000}
BackendVectors == [base : BaseVectors, scale : Scales]
BackendArrays == UNION {[1..n -> BackendVectors] : n \in 1..MaxNormTexts}

ISqrt(n) == CHOOSE r \in 0..n : r * r = n

\* np.linalg.norm of one row
L2Norm(v) == v.scale * ISqrt(v.base[1] * v.base[1] + v.base[2] * v.base[2])

\* norms = np.linalg.norm(arr, axis=1, keepdims=True) + 1e-10
NormsNoEpsilon(arr) == [j \in 1..Len(arr) |-> L2Norm(arr[j])]
Norms(arr) == [j \in 1..Len(arr) |-> L2Norm(arr[j]) + Epsilon]

\* arr / norms
Normalize(arr) ==
  LET norms == Norms(arr)
  IN  [j \in 1..Len(arr) |->
         [base |-> arr[j].base, scale |-> arr[j].scale, den |-> norms[j]]]

NormLocalsInit ==
  /\ ncall = <<>>
  /\ nret = <<>>

NormIdle == NormLocalsInit

\* one call with a non-empty list of texts, the backend answering arr
EmbedAndNormalizeCall ==
  /\ ncall = <<>>
  /\ \E arr \in BackendArrays :
        /\ ncall' = arr
        /\ nret' = Normalize(arr)
  /\ UNCHANGED NormOthers

EmbedAndNormalizeReturn ==
  /\ ncall # <<>>
  /\ ncall' = <<>>
  /\ nret' = <<>>
  /\ UNCHANGED NormOthers

NormNext == EmbedAndNormalizeCall \/ EmbedAndNormalizeReturn

(***************************************************************************)
(* _extract_vectors_from_response of src/embedder.py, shape by shape.  A   *)
(* response offers a raw list as attribute embeddings, as key embeddings   *)
(* or as attribute results; an item of the list offers a vector as the     *)
(* item itself, as attribute values, as attribute embedding, as key values,*)
(* as key embedding or by iteration.  Each place holds a vector of its own.*)
(***************************************************************************)
MaxItems == 2

Place(st, v) == [st |-> st, v |-> v]
Absent == Place("absent", <<>>)
\* the item is a list, tuple or array: of numbers, or with a non-number
ListItems ==
  {[kind |-> "list", seq |-> Place(st, <<1>>), values |-> Absent,
    embedding |-> Absent, dvalues |-> Absent, dembedding |-> Absent,
    iter |-> Absent] : st \in {"list", "bad_list"}}
\* the item is a dict: hasattr(item, "values") finds the method of dict,
\* which is no list and cannot be iterated
DictItems ==
  {[kind |-> "dict", seq |-> Absent, values |-> Place("unparsable", <<>>),
    embedding |-> Absent, dvalues |-> dv, dembedding |-> de, iter |-> it] :
      dv \in {Absent, Place("iter", <<4>>), Place("bad_list", <<4>>)},
      de \in {Absent, Place("iter", <<5>>)},
      it \in {Place("unparsable", <<>>)}}
  \cup {[kind |-> "dict", seq |-> Absent, values |-> Place("unparsable", <<>>),
          embedding |-> Absent, dvalues |-> Absent, dembedding |-> Absent,
          iter |-> Place("iter", <<6>>)]}
\* the item is another object
ObjectItems ==
  {[kind |-> "object", seq |-> Absent, values |-> va, embedding |-> em,
    dvalues |-> Absent, dembedding |-> Absent, iter |-> it] :
      va \in {Absent, Place("unparsable", <<>>)},
      em \in {Absent, Place("list", <<3>>), Place("unparsable", <<>>)},
      it \in {Absent, Place("iter", <<6>>)}}
  \cup {[kind |-> "object", seq |-> Absent, values |-> va, embedding |-> em,
          dvalues |-> Absent, dembedding |-> Absent, iter |-> Absent] :
      va \in {Place("list", <<2>>), Place("bad_list", <<2>>), Place("iter", <<2>>)},
      em \in {Absent, Place("list", <<3>>)}}
Items == ListItems \cup DictItems \cup ObjectItems
ItemLists == UNION {[1..n -> Items] : n \in 0..MaxItems}

Raw(st, items) == [st |-> st, items |-> items]
\* a list that must not be the one read
Decoy == Raw("list", <<CHOOSE it \in ListItems : it.seq.st = "list">>)

\* raw = resp.embeddings, else resp["embeddings"], else resp.results, else None
RawOf(resp) ==
  IF resp.attr.st # "absent" THEN resp.attr
  ELSE IF resp.key.st # "absent" THEN resp.key
  ELSE IF resp.results.st # "absent" THEN resp.results
  ELSE Raw("none", <<>>)

\* the shapes of a response: what it has as embeddings attribute (a list,
\* None, no iterable, or nothing), as embeddings key and as results attribute
ResponseShapes ==
  [attr : {"absent", "none", "scalar", "list"}, key : {"absent", "list"},
   results : {"absent", "list"}]
\* which of the three is read
ReadPlace(sh) ==
  IF sh.attr # "absent" THEN "attr"
  ELSE IF sh.key # "absent" THEN "key"
  ELSE IF sh.results # "absent" THEN "results"
  ELSE "nothing"
\* the response of shape sh: the list that is read holds the items, every
\* other list is the decoy
Response(sh, items) ==
  LET at(place, st) ==
        IF st # "list" THEN Raw(st, <<>>)
        ELSE IF ReadPlace(sh) = place THEN Raw("list", items) ELSE Decoy
  IN  [attr |-> at("attr", sh.attr), key |-> at("key", sh.key),
       results |-> at("results", sh.results)]

Vector(v) == [kind |-> "vector", v |-> v]
FloatError == [kind |-> "float_error", v |-> <<>>]
Unparsed == [kind |-> "unparsed", v |-> <<>>]

\* cases 2 and 3: the attribute, when the item has it
TryAttribute(p) ==
  IF p.st = "list" \/ p.st = "iter" THEN Vector(p.v)
  ELSE IF p.st = "bad_list" THEN FloatError
  ELSE Unparsed

\* the body of the loop for one item
ExtractItem(item) ==
  IF item.kind = "list"
  THEN IF item.seq.st = "list" THEN Vector(item.seq.v) ELSE FloatError
  ELSE IF TryAttribute(item.values).kind # "unparsed"
  THEN TryAttribute(item.values)
  ELSE IF TryAttribute(item.embedding).kind # "unparsed"
  THEN TryAttribute(item.embedding)
  ELSE IF item.kind = "dict" /\ item.dvalues.st # "absent"
  THEN IF item.dvalues.st = "iter" THEN Vector(item.dvalues.v) ELSE FloatError
  ELSE IF item.kind = "dict" /\ item.dembedding.st # "absent"
  THEN Vector(item.dembedding.v)
  ELSE IF item.iter.st = "iter" THEN Vector(item.iter.v)
  ELSE Unparsed

XReturned(vectors) == [kind |-> "returned", err |-> "", vectors |-> vectors]
XRaised(err) == [kind |-> "raised", err |-> err, vectors |-> <<>>]
XNone == [kind |-> "none", err |-> "", vectors |-> <<>>]

\* the loop over raw
RECURSIVE ExtractLoopSkipsUnparsed(_)
ExtractLoopSkipsUnparsed(items) ==
  IF items = <<>> THEN XReturned(<<>>)
  ELSE LET o == ExtractItem(Head(items))
           rest == ExtractLoopSkipsUnparsed(Tail(items))
       IN  IF o.kind = "float_error" THEN XRaised("ValueError")
           ELSE IF rest.kind = "raised" THEN rest
           ELSE IF o.kind = "unparsed" THEN rest
           ELSE XReturned(<<o.v>> \o rest.vectors)
RECURSIVE ExtractLoop(_)
ExtractLoop(items) ==
  IF items = <<>> THEN XReturned(<<>>)
  ELSE LET o == ExtractItem(Head(items))
           rest == ExtractLoop(Tail(items))
       IN  IF o.kind = "float_error" THEN XRaised("ValueError")
           ELSE IF o.kind = "unparsed"
           THEN XRaised("RuntimeError: Unable to parse embedding item")
           ELSE IF rest.kind = "raised" THEN rest
           ELSE XReturned(<<o.v>> \o rest.vectors)

ExtractVectorsFromResponse(resp) ==
  LET raw == RawOf(resp)
  IN  IF raw.st = "none"
      THEN XRaised("RuntimeError: No embeddings found in response object")
      ELSE IF raw.st = "scalar" THEN XRaised("TypeError")
      ELSE ExtractLoop(raw.items)

ExtractLocalsInit ==
  /\ xresp = [attr |-> Raw("absent", <<>>), key |-> Raw("absent", <<>>),
              results |-> Raw("absent", <<>>)]
  /\ xret = XNone

ExtractIdle == ExtractLocalsInit

ExtractCall ==
  /\ xret = XNone
  /\ \E sh \in ResponseShapes : \E items \in ItemLists :
        /\ RawOf(Response(sh, <<>>)).st # "list" => items = <<>>
        /\ xresp' = Response(sh, items)
        /\ xret' = ExtractVectorsFromResponse(Response(sh, items))
  /\ UNCHANGED ExtractOthers

ExtractReturn ==
  /\ xret # XNone
  /\ xresp' = [attr |-> Raw("absent", <<>>), key |-> Raw("absent", <<>>),
               results |-> Raw("absent", <<>>)]
  /\ xret' = XNone
  /\ UNCHANGED ExtractOthers

ExtractNext == ExtractCall \/ ExtractReturn

(***************************************************************************)
(* app/streamlit_app.py (sop) and jls_chatbot/app.py (jls): a session.     *)
(* Every widget event starts one run of the script from the top; st.rerun() *)
(* ends the run and starts another without an event.  A turn is kept       *)
(* without its time stamp.                                                 *)
(***************************************************************************)
MaxTurns == 3

NoSecret == "<None>"
Secrets == {NoSecret, "", "pw"}
Passwords == {"", "pw", "guess"}
Pages == {"Chatbot", "Introduction", "Future Updates", "Knowledge Base"}
Queries == {<<>>, <<" ">>, <<"q">>}
\* what answer_query does: it raises, or returns a result
Outcomes ==
  {[raises |-> TRUE, answer |-> "", sources |-> <<>>],
   [raises |-> FALSE, answer |-> "grounded", sources |-> <<"s1">>],
   [raises |-> FALSE, answer |-> "not_available", sources |-> <<>>]}
NoOutcome == [raises |-> FALSE, answer |-> "", sources |-> <<>>]

Event(kind, query, password, pg, outcome) ==
  [kind |-> kind, query |-> query, password |-> password, page |-> pg,
   outcome |-> outcome]
NoEvent == Event("none", <<>>, "", "Chatbot", NoOutcome)

Turn(q, a, srcs) == [query |-> q, answer |-> a, sources |-> srcs]

Session(pc, pg, h, r, c) ==
  [password_correct |-> pc, page |-> pg, history |-> h, rendered |-> r,
   called |-> c, rerun |-> FALSE]

\* the Ask handler of the sop app: a failed answer_query leaves the empty result
AskHandlerDropsFailedTurn(h, query, outcome) ==
  IF outcome.raises THEN h
  ELSE Append(h, Turn(query, outcome.answer, outcome.sources))
AskHandler(h, query, outcome) ==
  LET res == IF outcome.raises THEN [answer |-> "", sources |-> <<>>]
             ELSE [answer |-> outcome.answer, sources |-> outcome.sources]
  IN  Append(h, Turn(query, res.answer, res.sources))

\* one run of app/streamlit_app.py
SopScript(ev, h) ==
  LET h1 == IF ev.kind = "clear" THEN <<>> ELSE h
      asks == ev.kind = "ask" /\ Strip(ev.query) # <<>>
  IN  Session(FALSE, "Chatbot",
              IF asks THEN AskHandler(h1, ev.query, ev.outcome) ELSE h1,
              "sop_page", asks)

\* check_password(): the flag after it, and what it returns
CheckPasswordAcceptsAny(pc, sec, ev) ==
  IF pc THEN [flag |-> TRUE, ok |-> TRUE, rerun |-> FALSE, shown |-> "nothing"]
  ELSE IF ev.kind = "submit"
  THEN [flag |-> TRUE, ok |-> FALSE, rerun |-> TRUE, shown |-> "password_form"]
  ELSE [flag |-> FALSE, ok |-> FALSE, rerun |-> FALSE, shown |-> "password_form"]
CheckPassword(pc, sec, ev) ==
  IF pc THEN [flag |-> TRUE, ok |-> TRUE, rerun |-> FALSE, shown |-> "nothing"]
  ELSE IF sec = NoSecret \/ sec = ""
  THEN [flag |-> FALSE, ok |-> FALSE, rerun |-> FALSE, shown |-> "not_configured"]
  ELSE IF ev.kind = "submit" /\ ev.password = sec
  THEN [flag |-> TRUE, ok |-> FALSE, rerun |-> TRUE, shown |-> "password_form"]
  ELSE [flag |-> FALSE, ok |-> FALSE, rerun |-> FALSE, shown |-> "password_form"]

\* render_chatbot_page()
RenderChatbotPage(ev, h) ==
  IF ev.kind = "clear"
  THEN [history |-> <<>>, called |-> FALSE, rerun |-> TRUE]
  ELSE IF ev.kind = "chat" /\ ev.query # <<>>
  THEN IF ev.outcome.raises
       THEN [history |-> h, called |-> TRUE, rerun |-> FALSE]
       ELSE [history |->
               Append(h, Turn(ev.query, ev.outcome.answer, ev.outcome.sources)),
             called |-> TRUE, rerun |-> TRUE]
  ELSE [history |-> h, called |-> FALSE, rerun |-> FALSE]

\* one run of jls_chatbot/app.py, up to its end or its st.rerun()
JlsScript(ev, sec, pc, pg, h) ==
  LET cp == CheckPassword(pc, sec, ev)
  IN  IF ~cp.ok
      THEN [Session(cp.flag, pg, h, cp.shown, FALSE) EXCEPT !.rerun = cp.rerun]
      ELSE IF ev.kind = "nav"
      THEN [Session(cp.flag, ev.page, h, "navigation", FALSE)
              EXCEPT !.rerun = TRUE]
      ELSE IF pg = "Chatbot"
      THEN LET r == RenderChatbotPage(ev, h)
           IN  [Session(cp.flag, pg, r.history, pg, r.called)
                  EXCEPT !.rerun = r.rerun]
      ELSE Session(cp.flag, pg, h, pg, FALSE)

\* the run an event starts, and the run that st.rerun() starts after it
JlsRun(ev, sec, pc, pg, h) ==
  LET s1 == JlsScript(ev, sec, pc, pg, h)
  IN  IF s1.rerun
      THEN LET s2 == JlsScript(NoEvent, sec, s1.password_correct, s1.page,
                               s1.history)
           IN  [s2 EXCEPT !.called = s1.called]
      ELSE s1

AppLocalsInit ==
  /\ password_correct = FALSE
  /\ page = "Chatbot"
  /\ history = <<>>
  /\ rendered = "nothing"
  /\ called = FALSE
  /\ event = NoEvent

AppInit ==
  /\ variant \in Variants
  /\ secret \in Secrets
  /\ variant = "sop" => secret = NoSecret
  /\ AppLocalsInit

AppIdle ==
  /\ secret = NoSecret
  /\ AppLocalsInit

\* the session after the run that ev starts
AppRun(ev) ==
  LET s1 == IF variant = "sop" THEN SopScript(ev, history)
            ELSE JlsRun(ev, secret, password_correct, page, history)
  IN  /\ event' = ev
      /\ password_correct' = s1.password_correct
      /\ page' = s1.page
      /\ history' = s1.history
      /\ rendered' = s1.rendered
      /\ called' = s1.called
      /\ UNCHANGED secret
      /\ UNCHANGED AppOthers

\* the page is loaded or reloaded
AppRerun == AppRun(NoEvent)

\* "Clear chat history" is pressed
AppClear == AppRun(Event("clear", <<>>, "", "Chatbot", NoOutcome))

\* sop: "Ask" is pressed with the text of the input
SopAsk ==
  /\ variant = "sop"
  /\ Len(history) < MaxTurns
  /\ \E q \in Queries : \E o \in Outcomes :
        AppRun(Event("ask", q, "", "Chatbot", o))

\* jls: a question is sent from the chat input
JlsChat ==
  /\ variant = "jls"
  /\ Len(history) < MaxTurns
  /\ \E q \in Queries : \E o \in Outcomes :
        AppRun(Event("chat", q, "", "Chatbot", o))

\* jls: the password form is submitted
JlsSubmit ==
  /\ variant = "jls"
  /\ \E p \in Passwords : AppRun(Event("submit", <<>>, p, "Chatbot", NoOutcome))

\* jls: a button of the navigation is pressed
JlsNav ==
  /\ variant = "jls"
  /\ \E pg \in Pages : AppRun(Event("nav", <<>>, "", pg, NoOutcome))

AppNext ==
  \/ AppRerun
  \/ AppClear
  \/ SopAsk
  \/ JlsChat
  \/ JlsSubmit
  \/ JlsNav

(***************************************************************************)
(* main of jls_chatbot/pipeline/download.py, from the read of the sheet.   *)
(* A row has the hyperlink of its cell of the URL column ("" when the cell *)
(* has none) and the text of its cell of the section column.               *)
(***************************************************************************)
MaxRows == 3

NoLink == ""
Links == {NoLink, "docs.google.com/document/d/1", "docs.google.com/document/d/2",
          "docs.google.com/spreadsheets/d/3"}
DocLinks == {"docs.google.com/document/d/1", "docs.google.com/document/d/2"}
SectionNames == {"A", "B"}
Rows == [hyperlink : Links, section : SectionNames]
Sheets == UNION {[1..n -> Rows] : n \in 0..MaxRows}

\* urls: the hyperlinks of the cells that have one
RECURSIVE UrlsOf(_)
UrlsOf(rows) ==
  IF rows = <<>> THEN <<>>
  ELSE (IF Head(rows).hyperlink # NoLink THEN <<Head(rows).hyperlink>> ELSE <<>>)
       \o UrlsOf(Tail(rows))
\* sections: the text of every cell of the section column
SectionsOf(rows) == [i \in 1..Len(rows) |-> rows[i].section]

\* d[url] = section on a dict kept as a sequence of pairs: a new key goes to
\* the end, a known key keeps its place and takes the new value
DictSet(d, url, section) ==
  IF \E i \in 1..Len(d) : d[i].url = url
  THEN [i \in 1..Len(d) |->
          IF d[i].url = url THEN [url |-> url, section |-> section] ELSE d[i]]
  ELSE Append(d, [url |-> url, section |-> section])

\* {urls[i]: sections[i] for i in range(min(len(urls), len(sections)))}
RECURSIVE UniqueDocs(_, _, _)
UniqueDocs(urls, sections, n) ==
  IF n = 0 THEN <<>>
  ELSE DictSet(UniqueDocs(urls, sections, n - 1), urls[n], sections[n])

DownloadInit ==
  /\ sheet \in Sheets
  /\ unique_docs = <<>>
  /\ ui = 1
  /\ all_metadata = <<>>
  /\ dpc = "start"

DownloadIdle ==
  /\ sheet = <<>>
  /\ unique_docs = <<>>
  /\ ui = 1
  /\ all_metadata = <<>>
  /\ dpc = "start"

\* the sheet is read; no hyperlink ends the run
DownloadReadSheet ==
  /\ dpc = "start"
  /\ LET urls == UrlsOf(sheet)
         sections == SectionsOf(sheet)
     IN  IF urls = <<>>
         THEN dpc' = "returned" /\ UNCHANGED unique_docs
         ELSE /\ dpc' = "loop"
              /\ unique_docs' =
                    UniqueDocs(urls, sections, Min(Len(urls), Len(sections)))
  /\ UNCHANGED <<sheet, ui, all_metadata>>
  /\ UNCHANGED DownloadOthers

\* one iteration of the loop: a link that is no Google Doc is skipped; a
\* download succeeds, and the entry is appended and saved, or fails
DownloadDoc ==
  /\ dpc = "loop"
  /\ ui <= Len(unique_docs)
  /\ LET url == unique_docs[ui].url
         section == unique_docs[ui].section
     IN  IF url \notin DocLinks
         THEN UNCHANGED all_metadata
         ELSE \E downloaded \in BOOLEAN :
                all_metadata' =
                  IF downloaded
                  THEN Append(all_metadata, [link |-> url, section |-> section])
                  ELSE all_metadata
  /\ ui' = ui + 1
  /\ UNCHANGED <<sheet, unique_docs, dpc>>
  /\ UNCHANGED DownloadOthers

DownloadDone ==
  /\ dpc = "loop"
  /\ ui > Len(unique_docs)
  /\ dpc' = "returned"
  /\ UNCHANGED <<sheet, unique_docs, ui, all_metadata>>
  /\ UNCHANGED DownloadOthers

DownloadNext == DownloadReadSheet \/ DownloadDoc \/ DownloadDone

(***************************************************************************)
(* The heading of a page in ingest_all of scripts/ingest.py, with          *)
(* clean_text and is_probable_heading of utils.py.                         *)
(***************************************************************************)
MaxWords == 9

\* a word of n letters: upper case, lower case, or capitalised
HWord(kind, n) ==
  [i \in 1..n |->
     IF kind = "upper" THEN "A"
     ELSE IF kind = "lower" THEN "a"
     ELSE IF i = 1 THEN "A" ELSE "a"]
WordKinds == {"upper", "lower", "capitalised"}
FirstWordLengths == {1, 2, 180, 199, 200}
Separators == {<<" ">>, <<"\n">>, <<"\n", "\n", "\n">>, <<"\r", "\n">>,
               <<"\t", " ">>}
\* the text of a page: n words, the first of length len1 and kind k1, the
\* others of two letters and kind k2, with sep between them and at the end
RECURSIVE RawPage(_, _, _, _, _)
RawPage(len1, k1, k2, n, sep) ==
  IF n = 0 THEN sep
  ELSE IF n = 1 THEN HWord(k1, len1) \o sep
  ELSE RawPage(len1, k1, k2, n - 1, sep) \o HWord(k2, 2) \o sep

\* s.split("\n")
RECURSIVE SplitLines(_)
SplitLines(s) ==
  IF \A i \in 1..Len(s) : s[i] # "\n" THEN <<s>>
  ELSE LET i == CHOOSE k \in 1..Len(s) :
                  s[k] = "\n" /\ \A m \in 1..(k - 1) : s[m] # "\n"
       IN  <<SubSeq(s, 1, i - 1)>> \o SplitLines(SubSeq(s, i + 1, Len(s)))

\* len(line.split())
WordCount(line) ==
  Cardinality({i \in 1..Len(line) :
                 /\ line[i] \notin Whitespace
                 /\ i = 1 \/ line[i - 1] \in Whitespace})
\* line.isupper(), line.istitle()
IsUpper(line) ==
  /\ \E i \in 1..Len(line) : line[i] = "A"
  /\ \A i \in 1..Len(line) : line[i] # "a"
IsTitle(line) ==
  /\ \E i \in 1..Len(line) : line[i] \in {"A", "a"}
  /\ \A i \in 1..Len(line) :
        /\ line[i] = "A" => (i = 1 \/ line[i - 1] \notin {"A", "a"})
        /\ line[i] = "a" => (i > 1 /\ line[i - 1] \in {"A", "a"})

is_probable_heading(line) ==
  /\ Len(line) < 200
  /\ WordCount(line) <= 8
  /\ IsUpper(line) \/ IsTitle(line)

NoHeading == [set |-> FALSE, text |-> <<>>]
\* the first of the first five lines that is a probable heading, stripped
RECURSIVE FirstHeading(_)
FirstHeading(lines) ==
  IF lines = <<>> THEN NoHeading
  ELSE IF is_probable_heading(Head(lines))
  THEN [set |-> TRUE, text |-> Strip(Head(lines))]
  ELSE FirstHeading(Tail(lines))

\* the body of the loop over the pages, up to the heading
PageHeading(raw) ==
  LET page_text == clean_text(raw)
      first_lines == SubSeq(SplitLines(page_text), 1,
                            Min(5, Len(SplitLines(page_text))))
  IN  IF Strip(page_text) = <<>>
      THEN [kind |-> "skipped", page_text |-> page_text, first_lines |-> <<>>,
            heading |-> NoHeading]
      ELSE [kind |-> "chunked", page_text |-> page_text,
            first_lines |-> first_lines, heading |-> FirstHeading(first_lines)]

HeadingLocalsInit ==
  /\ hpage = <<>>
  /\ hret = [kind |-> "none", page_text |-> <<>>, first_lines |-> <<>>,
             heading |-> NoHeading]

HeadingIdle == HeadingLocalsInit

\* one page of one file
HeadingOfPage ==
  /\ hret.kind = "none"
  /\ \E len1 \in FirstWordLengths : \E k1 \in WordKinds : \E k2 \in WordKinds :
     \E n \in 0..MaxWords : \E sep \in Separators :
        /\ hpage' = RawPage(len1, k1, k2, n, sep)
        /\ hret' = PageHeading(RawPage(len1, k1, k2, n, sep))
  /\ UNCHANGED HeadingOthers

\* the loop goes to the next page
HeadingNextPage ==
  /\ hret.kind # "none"
  /\ hpage' = <<>>
  /\ hret' = [kind |-> "none", page_text |-> <<>>, first_lines |-> <<>>,
              heading |-> NoHeading]
  /\ UNCHANGED HeadingOthers

HeadingNext == HeadingOfPage \/ HeadingNextPage

(***************************************************************************)
(* The specifications.                                                     *)
(***************************************************************************)
ChunkNext ==
  \/ ChunkLoop
  \/ ChunkReturn

InitChunk ==
  /\ ChunkInit
  /\ DiskIdle
  /\ IngestIdle
  /\ IndexIdle
  /\ RebuildIdle
  /\ AnswerIdle
  /\ EmbedderIdle
  /\ RetrieveIdle
  /\ FormatIdle
  /\ CleanIdle
  /\ NormIdle
  /\ ExtractIdle
  /\ AppIdle
  /\ DownloadIdle
  /\ HeadingIdle

SpecChunk == InitChunk /\ [][ChunkNext]_vars

\* the interpreter keeps executing the call until it returns
FairSpecChunk == SpecChunk /\ WF_vars(ChunkNext)

InitIngest ==
  /\ IngestInit
  /\ ChunkIdle
  /\ IndexIdle
  /\ RebuildIdle
  /\ AnswerIdle
  /\ EmbedderIdle
  /\ RetrieveIdle
  /\ FormatIdle
  /\ CleanIdle
  /\ NormIdle
  /\ ExtractIdle
  /\ AppIdle
  /\ DownloadIdle
  /\ HeadingIdle

SpecIngest == InitIngest /\ [][IngestNext]_vars

InitIndex ==
  /\ IndexInit
  /\ ChunkIdle
  /\ IngestIdle
  /\ RebuildIdle
  /\ AnswerIdle
  /\ EmbedderIdle
  /\ RetrieveIdle
  /\ FormatIdle
  /\ CleanIdle
  /\ NormIdle
  /\ ExtractIdle
  /\ AppIdle
  /\ DownloadIdle
  /\ HeadingIdle

SpecIndex == InitIndex /\ [][IndexNext]_vars

InitRebuild ==
  /\ RebuildInit
  /\ ChunkIdle
  /\ IngestIdle
  /\ AnswerIdle
  /\ EmbedderIdle
  /\ RetrieveIdle
  /\ FormatIdle
  /\ CleanIdle
  /\ NormIdle
  /\ ExtractIdle
  /\ AppIdle
  /\ DownloadIdle
  /\ HeadingIdle

SpecRebuild == InitRebuild /\ [][RebuildNext]_vars

InitAnswer ==
  /\ AnswerInit
  /\ chunksFile = NoChunksFile
  /\ embFile = NoEmbFile
  /\ prefDim = 2
  /\ ChunkIdle
  /\ IngestIdle
  /\ IndexIdle
  /\ RebuildIdle
  /\ EmbedderIdle
  /\ RetrieveIdle
  /\ FormatIdle
  /\ CleanIdle
  /\ NormIdle
  /\ ExtractIdle
  /\ AppIdle
  /\ DownloadIdle
  /\ HeadingIdle

SpecAnswer == InitAnswer /\ [][AnswerNext]_vars

InitEmbedder ==
  /\ EmbedderInit
  /\ chunksFile = NoChunksFile
  /\ embFile = NoEmbFile
  /\ prefDim = 2
  /\ ChunkIdle
  /\ IngestIdle
  /\ IndexIdle
  /\ RebuildIdle
  /\ AnswerIdle
  /\ RetrieveIdle
  /\ FormatIdle
  /\ CleanIdle
  /\ NormIdle
  /\ ExtractIdle
  /\ AppIdle
  /\ DownloadIdle
  /\ HeadingIdle

SpecEmbedder == InitEmbedder /\ [][EmbedderNext]_vars

InitRetrieve ==
  /\ RetrieveInit
  /\ ChunkIdle
  /\ IngestIdle
  /\ RebuildIdle
  /\ AnswerIdle
  /\ EmbedderIdle
  /\ FormatIdle
  /\ CleanIdle
  /\ NormIdle
  /\ ExtractIdle
  /\ AppIdle
  /\ DownloadIdle
  /\ HeadingIdle

SpecRetrieve == InitRetrieve /\ [][RetrieveNext]_vars

InitFormat ==
  /\ FormatLocalsInit
  /\ DiskIdle
  /\ ChunkIdle
  /\ IngestIdle
  /\ IndexIdle
  /\ RebuildIdle
  /\ AnswerIdle
  /\ EmbedderIdle
  /\ RetrieveIdle
  /\ CleanIdle
  /\ NormIdle
  /\ ExtractIdle
  /\ AppIdle
  /\ DownloadIdle
  /\ HeadingIdle

SpecFormat == InitFormat /\ [][FormatNext]_vars

InitClean ==
  /\ CleanLocalsInit
  /\ DiskIdle
  /\ ChunkIdle
  /\ IngestIdle
  /\ IndexIdle
  /\ RebuildIdle
  /\ AnswerIdle
  /\ EmbedderIdle
  /\ RetrieveIdle
  /\ FormatIdle
  /\ NormIdle
  /\ ExtractIdle
  /\ AppIdle
  /\ DownloadIdle
  /\ HeadingIdle

SpecClean == InitClean /\ [][CleanNext]_vars

InitNorm ==
  /\ NormLocalsInit
  /\ DiskIdle
  /\ ChunkIdle
  /\ IngestIdle
  /\ IndexIdle
  /\ RebuildIdle
  /\ AnswerIdle
  /\ EmbedderIdle
  /\ RetrieveIdle
  /\ FormatIdle
  /\ CleanIdle
  /\ ExtractIdle
  /\ AppIdle
  /\ DownloadIdle
  /\ HeadingIdle

SpecNorm == InitNorm /\ [][NormNext]_vars

InitExtract ==
  /\ ExtractLocalsInit
  /\ DiskIdle
  /\ ChunkIdle
  /\ IngestIdle
  /\ IndexIdle
  /\ RebuildIdle
  /\ AnswerIdle
  /\ EmbedderIdle
  /\ RetrieveIdle
  /\ FormatIdle
  /\ CleanIdle
  /\ NormIdle
  /\ AppIdle
  /\ DownloadIdle
  /\ HeadingIdle

SpecExtract == InitExtract /\ [][ExtractNext]_vars

InitApp ==
  /\ AppInit
  /\ chunksFile = NoChunksFile
  /\ embFile = NoEmbFile
  /\ prefDim = 2
  /\ ChunkIdle
  /\ IngestIdle
  /\ IndexIdle
  /\ RebuildIdle
  /\ AnswerIdle
  /\ EmbedderIdle
  /\ RetrieveIdle
  /\ FormatIdle
  /\ CleanIdle
  /\ NormIdle
  /\ ExtractIdle
  /\ DownloadIdle
  /\ HeadingIdle

SpecApp == InitApp /\ [][AppNext]_vars

InitDownload ==
  /\ DownloadInit
  /\ DiskIdle
  /\ ChunkIdle
  /\ IngestIdle
  /\ IndexIdle
  /\ RebuildIdle
  /\ AnswerIdle
  /\ EmbedderIdle
  /\ RetrieveIdle
  /\ FormatIdle
  /\ CleanIdle
  /\ NormIdle
  /\ ExtractIdle
  /\ AppIdle
  /\ HeadingIdle

SpecDownload == InitDownload /\ [][DownloadNext]_vars

InitHeading ==
  /\ HeadingLocalsInit
  /\ DiskIdle
  /\ ChunkIdle
  /\ IngestIdle
  /\ IndexIdle
  /\ RebuildIdle
  /\ AnswerIdle
  /\ EmbedderIdle
  /\ RetrieveIdle
  /\ FormatIdle
  /\ CleanIdle
  /\ NormIdle
  /\ ExtractIdle
  /\ AppIdle
  /\ DownloadIdle

SpecHeading == InitHeading /\ [][HeadingNext]_vars

(***************************************************************************)
(* The claims.                                                             *)
(***************************************************************************)

\* position p of the text lies inside span c
Covers(c, p) == c[1] <= p /\ p < c[2]

\* C1: for size > overlap >= 0 the spans chunk_text returns tile the input:
\* every position 0..len(text)-1 lies inside at least one span, and no span
\* ends past len(text).
C1_SpansTileInput ==
  (cpc = "done" /\ chunk_size > overlap) =>
     /\ \A p \in 0..(Len(text) - 1) :
           \E i \in 1..Len(chunks) : Covers(chunks[i], p)
     /\ \A i \in 1..Len(chunks) : chunks[i][2] <= Len(text)

\* C2: consecutive spans start exactly chunk_size - overlap characters apart,
\* and only the last span is shorter than chunk_size (clipped to the text).
C2_StrideIsSizeMinusOverlap ==
  (cpc = "done" /\ chunk_size > overlap) =>
     /\ \A i \in 1..(Len(chunks) - 1) :
           chunks[i + 1][1] - chunks[i][1] = chunk_size - overlap
     /\ \A i \in 1..Len(chunks) :
           chunks[i][2] - chunks[i][1] # chunk_size => i = Len(chunks)

\* C4: when ingest_all has finished and written both files, embeddings.npy has
\* one row for each line of chunks.jsonl and row i is the embedding of the text
\* of line i, whatever the backend returned.
C4_RowsAlignedWithLines ==
  ipc = "done" =>
     /\ Len(embFile.rows) = Len(chunksFile.lines)
     /\ \A i \in 1..Min(Len(embFile.rows), Len(chunksFile.lines)) :
           embFile.rows[i] = Vec(chunksFile.lines[i].text)

\* C10: in chunks.jsonl line i carries id i, counted from 0: the ids are unique,
\* increasing and without holes, also when documents or pages were skipped.
C10_IdsDenseFromZero ==
  chunksFile.exists =>
     \A i \in 1..Len(chunksFile.lines) : chunksFile.lines[i].id = i - 1

\* C10 witness: a finished jls run that skipped a missing file and an empty
\* page and still wrote two chunks.
C10_Witness ==
  /\ ipc = "done"
  /\ variant = "jls"
  /\ \E d \in 1..Len(docs) : docs[d].file = "missing"
  /\ \E d \in 1..Len(docs) :
        docs[d].file = "ok" /\ \E p \in 1..Len(docs[d].pages) : docs[d].pages[p] = 0
  /\ Len(chunksFile.lines) >= 2

\* C3: build_or_load_vectorstore and load_vectorstore never return an index
\* together with a query embedder of another dimension than the stored vectors.
C3_QueryDimMatchesStored ==
  (op.name \in {"build_or_load_vectorstore", "load_vectorstore"}
     /\ ret.kind = "index") => ret.qdim = ret.index.dim

\* errors of the configuration, raised before the index path is looked at
ConfigErrors == {"no_api_key", "no_query_embedder"}

\* a call without force rebuild made while no index was persisted
LoadOfAbsent ==
  /\ op.name \in {"build_or_load_vectorstore", "load_vectorstore"}
  /\ ~op.force
  /\ ~PathExists(op.before)

\* C7 as stated: a load (no force rebuild) while no index is persisted ends in
\* a fatal error; it builds no index and returns none.  (Which error it is, is
\* left open here: the statement fails on the call that builds and returns.)
C7_LoadOfAbsentIsFatal ==
  LoadOfAbsent =>
     /\ ret.kind = "error"
     /\ ~PathExists(indexDir)

\* C7 amended: load_vectorstore called while no index is persisted raises
\* index-not-found, builds nothing and returns nothing.
\* build_or_load_vectorstore(force_rebuild=False) called while no index is
\* persisted is a build: it never raises index-not-found; it raises
\* source-files-missing exactly when chunks.jsonl or embeddings.npy is missing
\* (once a query embedder exists), any error leaves the index absent, and when
\* it returns, the index returned is the one built from the two files and is
\* persisted.
C7_AbsentLoadRaisesAbsentBuildOrLoadBuilds ==
  /\ (LoadOfAbsent /\ op.name = "load_vectorstore") =>
        /\ ret = Raised("index_not_found")
        /\ indexDir = op.before
  /\ (LoadOfAbsent /\ op.name = "build_or_load_vectorstore") =>
        /\ ret.kind \in {"error", "index"}
        /\ ret.err # "index_not_found"
        /\ ret.err \notin ConfigErrors =>
             (ret.err = "source_files_missing"
                <=> (~chunksFile.exists \/ ~embFile.exists))
        /\ ret.kind = "error" => indexDir = op.before
        /\ ret.kind = "index" =>
             /\ ret.index = FromEmbeddings
             /\ indexDir = SaveLocal(ret.index)

\* C7 witness: load_vectorstore has just raised index-not-found.
C7_Witness ==
  /\ LoadOfAbsent
  /\ op.name = "load_vectorstore"
  /\ ret.err = "index_not_found"

\* C8: a force rebuild made while an index is persisted never hands back that
\* index: when build_or_load_vectorstore(force_rebuild=True) returns, the index
\* returned and the index persisted are the one built from the current
\* chunks.jsonl and embeddings.npy; when build_index(force_rebuild=True)
\* returns, the index persisted is the one built from the current chunks.jsonl.
C8_ForceRebuildYieldsFreshIndex ==
  /\ (op.name = "build_or_load_vectorstore" /\ op.force
        /\ PathExists(op.before) /\ ret.kind = "index") =>
        /\ ret.index = FromEmbeddings
        /\ indexDir = SaveLocal(FromEmbeddings)
  /\ (op.name = "build_index" /\ op.force
        /\ PathExists(op.before) /\ ret.kind = "nothing") =>
        indexDir = SaveLocal(FromDocuments)

\* C8 witness: a force rebuild over a persisted index has returned an index that
\* differs from the one persisted before.
C8_Witness ==
  /\ op.name = "build_or_load_vectorstore"
  /\ op.force
  /\ PathExists(op.before)
  /\ ret.kind = "index"
  /\ ret.index # LoadLocal(op.before)

\* C9: no index is produced or persisted from a passage list and a vector array
\* of different lengths: a persisted faiss_index holds as many vectors as
\* documents, and a build_faiss_index that returned left as many vectors in
\* faiss.index as lines in metadata.jsonl.
C9_NoIndexFromUnequalCounts ==
  /\ PathExists(indexDir) => Len(indexDir.faiss.vecs) = Len(indexDir.pkl.docs)
  /\ (op.name = "build_faiss_index" /\ ret.kind = "nothing") =>
        Len(faissIndexFile.vecs) = Len(metadataFile.lines)

\* C6: a query that loads the persisted index while a force rebuild runs sees a
\* whole index: the one persisted before the rebuild or the one the rebuild
\* built, never a mixture of the two.
C6_QueryLoadsWholeIndex ==
  \A r \in Readers :
     rpc[r] = "loaded" =>
        \/ loaded[r] = LoadLocal(op.before)
        \/ wpc \in {"save_faiss", "save_pkl", "done"} /\ loaded[r] = wvs

\* C5: in every result of answer_query the sources list has one entry per
\* passage of the generation context, in the same order and for the same
\* passages, whatever the answer text is.
C5_SourcesAreContextPassages ==
  apc = "returned" => sources = SourcesOf(variant, context_docs)

\* C11: a second ingestion run over the same corpus that completes after a
\* first run wrote chunks.jsonl leaves chunks.jsonl with the same lines (ids,
\* sources, pages, texts, order), whatever the embedding backend returned.
C11_SecondRunWritesSameChunks ==
  (rerun /\ ipc = "done" /\ chunksBefore.exists) => chunksFile = chunksBefore

C11_Witness ==
  /\ rerun /\ ipc = "done" /\ chunksBefore.exists
  /\ Len(chunksFile.lines) >= 2
  /\ embFile # embBefore

\* C16: a run that raised (embedding failed for some batch, or anything
\* earlier) or returned early left both files as it found them, and a run
\* that completed wrote both files from its own chunks and vectors.
C16_RunWritesBothFilesOrNone ==
  /\ ipc \in {"raised", "returned"} =>
        chunksFile = chunksBefore /\ embFile = embBefore
  /\ ipc = "done" => chunksFile = ChunkLines /\ embFile = EmbeddingsArr

C16_Witness ==
  /\ rerun /\ ipc = "raised" /\ bi > 0 /\ bi < Len(all_texts)
  /\ chunksBefore.exists /\ chunksFile = chunksBefore /\ embFile = embBefore

\* C17: a run that finds no manifest, no document or no text chunk never
\* ends by returning normally.
C17_NothingToIngestIsFatal == ipc # "returned"

\* C19: chunk_text returns for every text, every chunk_size >= 1 and every
\* overlap in 0..chunk_size (chunk_size = overlap included), and every
\* iteration of its loop moves start forward by at least chunk_size.
C19_ChunkTextTerminates ==
  /\ <>(cpc = "done")
  /\ [][ChunkLoop => start' >= start + chunk_size]_vars

C19_Witness ==
  cpc = "done" /\ chunk_size = overlap /\ Len(chunks) >= 2

\* C20: every chunk (char_start, char_end, text) chunk_text produces has
\* 0 <= char_start < char_end <= len(page text) and its text is the page text
\* from char_start to char_end, end-exclusive.
C20_ChunkIsItsSpanOfTheText ==
  \A i \in 1..Len(chunks) :
     /\ 0 <= chunks[i][1]
     /\ chunks[i][1] < chunks[i][2]
     /\ chunks[i][2] <= Len(text)
     /\ chunks[i][3] = SubSeq(text, chunks[i][1] + 1, chunks[i][2])

C20_Witness ==
  /\ cpc = "done" /\ Len(chunks) >= 2
  /\ chunks[Len(chunks)][2] - chunks[Len(chunks)][1] < chunk_size
  /\ chunks[Len(chunks)][2] = Len(text)

C12_EmptyRetrievalAnswersNotAvailable ==
  (apc = "returned" /\ search_type = "similarity_score_threshold"
     /\ context_docs = <<>>) =>
     /\ sources = <<>>
     /\ answer_text = "not_available"

TerminalPunctuation == {".", "!", "?"}

\* the snippet the rule of C13 gives the text t
RuleSnippet(t) ==
  LET sn == Snippet(t, SnippetLen)
  IN  IF Len(t) > SnippetLen /\ sn # <<>>
         /\ sn[Len(sn)] \notin TerminalPunctuation
      THEN sn \o <<"...">>
      ELSE sn

\* C13: the snippet of every entry of sources is the text of the passage it
\* cites cut to the snippet length with newlines turned into spaces, followed
\* by "..." if and only if the text was cut and the cut snippet does not end in
\* terminal punctuation.
C13_EllipsisOnlyAfterCutMidSentence ==
  apc = "returned" =>
     \A j \in 1..Len(sources) :
        \A i \in 1..Len(vectorstore.docs) :
           vectorstore.docs[i].source = sources[j].source =>
              sources[j].snippet = RuleSnippet(vectorstore.docs[i].text)

\* C14: embed_texts([]) and embed_documents([]) return a sequence of length 0
\* and make no backend call, in both embedders.
C14_EmptyBatchGivesEmptyResult ==
  (ecall.entry \in {"embed_texts", "embed_documents"} /\ ecall.texts = <<>>) =>
     /\ eret.kind \in {"array", "list"}
     /\ Len(eret.value) = 0
     /\ backend_calls = 0

NonEmptyInput ==
  /\ ecall.entry \in {"embed_texts", "embed_documents", "embed_query"}
  /\ ecall.texts # <<>>
  /\ ecall.entry = "embed_query" => ecall.texts[1] # <<>>

\* C15: an embedder call on non-empty input asks the backend exactly once, and
\* when the backend raised or its response could not be parsed the call raises
\* and hands back no vector.
C15_BackendFailureRaisesAfterOneCall ==
  NonEmptyInput =>
     /\ backend_calls = 1
     /\ eresp.kind \in {"raises", "no_embeddings", "bad_item"} =>
           eret.kind = "raise" /\ eret.value = <<>>

C15_Witness ==
  /\ NonEmptyInput
  /\ ecall.entry = "embed_texts" /\ Len(ecall.texts) = 2
  /\ eresp.kind = "bad_item" /\ eresp.rows # <<>>
  /\ eret.kind = "raise" /\ backend_calls = 1


\* C21: a retrieve call that returns gives exactly min(top_k, n) results for
\* an index of n vectors (the -1 slots of a search with n < top_k are
\* dropped), best score first, each carrying a line of metadata.jsonl; and on
\* an index with one metadata line for each vector no lookup of a slot fails.
C21_TopKReturnsMinOfKAndN ==
  /\ rret.kind = "results" =>
        /\ Len(rret.results) = Min(rcall.top_k, Len(faissIndexFile.vecs))
        /\ \A j \in 1..Len(rret.results) :
              \E i \in 1..Len(metadataFile.lines) :
                 rret.results[j].metadata = metadataFile.lines[i]
        /\ \A j \in 1..(Len(rret.results) - 1) :
              rret.results[j].score >= rret.results[j + 1].score
  /\ Len(faissIndexFile.vecs) = Len(metadataFile.lines) =>
        rret.err # "index_error"

C21_Witness ==
  /\ rret.kind = "results"
  /\ Len(faissIndexFile.vecs) < rcall.top_k
  /\ Len(rret.results) = Len(faissIndexFile.vecs)
  /\ Len(rret.results) >= 1


\* the literal pieces of the format strings
FmtLabels ==
  {"Source Document: ", "Section: ", "Author: ", ", Date: ", "Content Snippet: ",
   "Source: ", ", Page: ", "Content: ", " (page:", ")", "SOP Title: ", "Date: ",
   "\n", "---", "\n\n", "\n\n---\n\n"}
IsFmtValue(piece) == piece \notin FmtLabels
\* the field values of a string, in order
ValuesOf(str) == SelectSeq(str, IsFmtValue)

\* the pieces of str between occurrences of sep
RECURSIVE SplitOn(_, _)
SplitOn(str, sep) ==
  IF \A i \in 1..Len(str) : str[i] # sep THEN <<str>>
  ELSE LET i == CHOOSE k \in 1..Len(str) :
                  str[k] = sep /\ \A m \in 1..(k - 1) : str[m] # sep
       IN  <<SubSeq(str, 1, i - 1)>> \o SplitOn(SubSeq(str, i + 1, Len(str)), sep)

ContextBlocks ==
  IF fcontext = <<>> THEN <<>> ELSE SplitOn(fcontext, Separator(fcall.fmt))

ShownValues(fmt, d) ==
  IF fmt = "jls_format_docs"
  THEN <<TitleOf(d), SectionOf(d), AuthorOf(d), DateOf(d)>> \o OriginalTextOf(d)
  ELSE IF fmt = "sop_format_docs" /\ d.prefixed
  THEN <<SourceOf(d), PageOf(d), SourceOf(d), AuthorOf(d), DateOf(d),
         SectionOf(d)>> \o OriginalTextOf(d)
  ELSE <<SourceOf(d), PageOf(d)>> \o OriginalTextOf(d)

RECURSIVE ShownValuesOfAll(_, _)
ShownValuesOfAll(fmt, ds) ==
  IF ds = <<>> THEN <<>>
  ELSE ShownValues(fmt, Head(ds)) \o ShownValuesOfAll(fmt, Tail(ds))

HasParagraphBreak(s, n) ==
  \E i \in 2..Len(s) : \E j \in i..(Len(s) - 1) :
     /\ j - i + 1 >= n
     /\ \A k \in i..j : s[k] = "\n"
     /\ s[i - 1] \notin Whitespace
     /\ s[j + 1] \notin Whitespace

\* s has a run of exactly two newlines with text before and after it
HasTwoNewlines(s) ==
  \E i \in 2..(Len(s) - 2) :
     /\ s[i] = "\n" /\ s[i + 1] = "\n"
     /\ s[i - 1] # "\n" /\ s[i + 2] # "\n"

\* C23: clean_text returns its argument with carriage returns made newlines,
\* runs of three or more newlines made two newlines, runs of whitespace made
\* one space, and the ends trimmed; and a paragraph break of three or more
\* newlines of the argument is exactly two newlines of the result.
C23_ParagraphBreakIsTwoNewlines ==
  (ccall.fn = "clean_text" /\ HasParagraphBreak(ccall.s, 3)) =>
     HasTwoNewlines(cret)


\* the L2 norm of a returned vector, as a fraction
ReturnedNorm(r) ==
  [num |-> r.scale * ISqrt(r.base[1] * r.base[1] + r.base[2] * r.base[2]),
   den |-> r.den]
\* | 1 - q | <= 1e-6
WithinTolerance(q) ==
  /\ q.den > 0
  /\ (q.den - q.num) * 1000000 <= q.den
  /\ (q.num - q.den) * 1000000 <= q.den
AllZeros(v) == v.scale * v.base[1] = 0 /\ v.scale * v.base[2] = 0

\* C24: every vector returned for a non-empty text has L2 norm within 1e-6
\* of 1, unless the vector of the backend was all zeros.
C24_UnitNormUnlessAllZeros ==
  \A j \in 1..Len(nret) :
     ~AllZeros(ncall[j]) => WithinTolerance(ReturnedNorm(nret[j]))

\* C24 amended: a returned vector has L2 norm within 1e-6 of 1 exactly when
\* the norm of the backend's vector plus 1e-10 is at least 1e-4; below that,
\* all zeros or not, the returned norm is short of 1 by more than 1e-6; and
\* one vector is returned for each vector of the backend.
C24_UnitNormUnlessNormBelowTenThousandth ==
  /\ Len(nret) = Len(ncall)
  /\ \A j \in 1..Len(nret) :
        WithinTolerance(ReturnedNorm(nret[j]))
           <=> L2Norm(ncall[j]) + Epsilon >= 1000000

C24_Witness ==
  /\ Len(nret) = 2
  /\ ~AllZeros(ncall[1])
  /\ ~WithinTolerance(ReturnedNorm(nret[1]))
  /\ WithinTolerance(ReturnedNorm(nret[2]))


\* the vectors an item holds, wherever
VectorsOffered(item) ==
  {p.v : p \in {q \in {item.seq, item.values, item.embedding, item.dvalues,
                        item.dembedding, item.iter} :
                  q.st \in {"list", "iter"}}}
\* the list of the response, by the order embeddings attribute, embeddings
\* key, results attribute
EmbeddingList(resp) ==
  IF resp.attr.st # "absent" THEN resp.attr.items
  ELSE IF resp.key.st # "absent" THEN resp.key.items
  ELSE resp.results.items

\* C25: a call of _extract_vectors_from_response returns one vector for
\* each item of the embedding list of the response, in the order of the
\* items and taken from the item, or raises an error that says what failed;
\* and it raises when the response has no embeddings attribute, no
\* embeddings key and no results attribute.
C25_OneVectorPerItemOrRaise ==
  xret.kind # "none" =>
     /\ xret.kind \in {"returned", "raised"}
     /\ xret.kind = "raised" => xret.err # "" /\ xret.vectors = <<>>
     /\ xret.kind = "returned" =>
           /\ Len(xret.vectors) = Len(EmbeddingList(xresp))
           /\ \A j \in 1..Len(xret.vectors) :
                 xret.vectors[j] \in VectorsOffered(EmbeddingList(xresp)[j])
     /\ (xresp.attr.st = "absent" /\ xresp.key.st = "absent"
            /\ xresp.results.st = "absent") => xret.kind = "raised"

C25_Witness ==
  /\ xret.kind = "returned"
  /\ xresp.attr.st = "absent"
  /\ xresp.key.st = "list"
  /\ xresp.results.st = "list"
  /\ Len(xret.vectors) = 2
  /\ xret.vectors[1] # xret.vectors[2]


\* the texts a run of the embedding loop has given to the provider so far
SentTexts == Flatten(sent)

\* C26: the batches given to the provider are the chunk texts cut in order
\* into consecutive pieces: together they are a prefix of the chunk list, the
\* whole list once the loop is over; no batch is empty or longer than the
\* batch size, and all but the last have the batch size; and a batch is given
\* only when every earlier one has returned its vectors.
C26_BatchesPartitionChunkTexts ==
  /\ Len(SentTexts) <= Len(all_texts)
  /\ SentTexts = SubSeq(all_texts, 1, Len(SentTexts))
  /\ \A b \in 1..Len(sent) :
        /\ Len(sent[b]) >= 1
        /\ Len(sent[b]) <= BatchSize
        /\ b < Len(sent) => Len(sent[b]) = BatchSize
  /\ ipc \in {"save1", "save2", "done"} => SentTexts = all_texts
  /\ Len(sent) = Len(embeddings_list)
        + (IF ipc = "raised" /\ sent # <<>> THEN 1 ELSE 0)

C26_Witness ==
  /\ ipc = "save1"
  /\ Len(sent) >= 2
  /\ Len(sent[Len(sent)]) < BatchSize
  /\ SentTexts = all_texts


IsPrefix(h1, h2) == Len(h1) <= Len(h2) /\ h1 = SubSeq(h2, 1, Len(h1))

\* C27: the history only grows at its end, except by "Clear chat history":
\* in the sop app a press of Ask with a non-blank query adds one turn with that
\* query, with an empty answer and no sources when answer_query raised, and
\* nothing else adds a turn; in the jls app a turn is added only by a
\* question whose answer_query returned; no run but a Clear changes or
\* removes an earlier turn.
C27_HistoryIsAppendOnly ==
  [][LET cleared == /\ event'.kind = "clear"
                    /\ variant = "jls" => password_correct /\ page = "Chatbot"
         last == history'[Len(history')]
     IN  /\ ~cleared => IsPrefix(history, history')
         /\ cleared => history' = <<>>
         /\ (variant = "sop" /\ ~cleared) =>
               IF event'.kind = "ask" /\ Strip(event'.query) # <<>>
               THEN /\ Len(history') = Len(history) + 1
                    /\ last.query = event'.query
                    /\ event'.outcome.raises =>
                          last.answer = "" /\ last.sources = <<>>
                    /\ ~event'.outcome.raises =>
                          /\ last.answer = event'.outcome.answer
                          /\ last.sources = event'.outcome.sources
               ELSE history' = history
         /\ (variant = "jls" /\ ~cleared) =>
               IF /\ event'.kind = "chat" /\ event'.query # <<>>
                  /\ password_correct /\ page = "Chatbot"
                  /\ ~event'.outcome.raises
               THEN history' =
                      Append(history, Turn(event'.query, event'.outcome.answer,
                                           event'.outcome.sources))
               ELSE history' = history]_vars

C27_Witness ==
  /\ variant = "sop"
  /\ Len(history) = 2
  /\ history[1].answer = "grounded"
  /\ history[2].answer = "" /\ history[2].sources = <<>>
  /\ event.kind = "ask" /\ event.outcome.raises

\* C28: in the jls app a page is shown and answer_query is called only in a
\* session whose password_correct is true; the flag turns true only in the
\* run of a submitted password equal to the configured secret, is never
\* turned false again, and is never true when no secret is configured.
C28_PagesOnlyBehindThePassword ==
  /\ [](variant = "jls" =>
          /\ rendered \in Pages => password_correct
          /\ called => password_correct
          /\ password_correct => secret \notin {NoSecret, ""})
  /\ [][variant = "jls" =>
          /\ password_correct => password_correct'
          /\ (~password_correct /\ password_correct') =>
                /\ event'.kind = "submit"
                /\ event'.password = secret
          /\ (~password_correct /\ called') => FALSE]_vars

C28_Witness ==
  /\ variant = "jls"
  /\ password_correct
  /\ rendered = "Chatbot"
  /\ called
  /\ Len(history) = 1


\* C30: the section of every entry of the manifest is the section cell of a
\* row of the sheet whose URL cell has the hyperlink of the entry.
C30_SectionIsOfTheRowOfTheLink ==
  \A e \in 1..Len(all_metadata) :
     \E r \in 1..Len(sheet) :
        /\ sheet[r].hyperlink = all_metadata[e].link
        /\ sheet[r].section = all_metadata[e].section


\* C29: the cleaned text of a page has no newline, so a page that is not
\* skipped has one first line, and its heading is None or the whole cleaned
\* text of the page; the heading is set only when the whole text is shorter
\* than 200 characters, has at most 8 words and is upper case or title case.
C29_HeadingIsNoneOrWholePage ==
  hret.kind # "none" =>
     /\ \A i \in 1..Len(hret.page_text) : hret.page_text[i] # "\n"
     /\ hret.kind = "chunked" => Len(hret.first_lines) = 1
     /\ hret.heading.set =>
           /\ hret.heading.text = hret.page_text
           /\ Len(hret.page_text) < 200
           /\ WordCount(hret.page_text) <= 8
           /\ IsUpper(hret.page_text) \/ IsTitle(hret.page_text)

C29_Witness ==
  /\ hret.heading.set
  /\ \E i \in 1..Len(hpage) : hpage[i] = "\n"
  /\ Len(SplitLines(hpage)) >= 3
  /\ WordCount(hret.heading.text) = 8

====
